---- MODULE Spec2Model ----
(***************************************************************************)
(* State-machine model of the rust-websocket server: the JWT session       *)
(* registry (auth/session.rs, auth/jwt.rs), the per-symbol pub/sub bus     *)
(* (data/pubsub.rs), the broadcast controller (data/controller.rs), the    *)
(* HTTP admin routes (api/handlers.rs) and the WebSocket routing and       *)
(* connection handlers (main.rs, websocket/handler.rs, websocket/admin.rs).*)
(*                                                                         *)
(* Every Mutex critical section of the source is one atomic step; code     *)
(* that runs between two critical sections, or between two await points of *)
(* a task, may interleave with the steps of other threads and tasks (the   *)
(* runtime is tokio's multi-threaded scheduler, main.rs:117).              *)
(***************************************************************************)
EXTENDS Integers, Sequences, FiniteSets, TLC

(***************************************************************************)
(* Bounds.  The sizes below scale the program's limits down so that the    *)
(* limits are reached within the explored state space.                     *)
(***************************************************************************)
\* auth/session.rs:11 sets MAX_CONNECTIONS to 1000; scaled down.
MAX_CONNECTIONS == 2
\* auth/session.rs:12 sets CONNECTION_TIMEOUT_SECS to 300; here in clock ticks.
CONNECTION_TIMEOUT_SECS == 1
\* auth/jwt.rs:31 sets validation.leeway to 30 seconds; here in clock ticks.
LEEWAY == 1
\* last value of the wall clock: late enough for a session to go stale
MaxTime == CONNECTION_TIMEOUT_SECS + 1

None == "none"

(***************************************************************************)
(* Tokens and claims (auth/jwt.rs)                                         *)
(***************************************************************************)
\* session ids (jti); 0 stands for the empty string
SessionIds == 1..(MAX_CONNECTIONS + 1)

\* A bearer token as presented by a client: sig says whether the HS256
\* signature and the encoding check out, the other fields are the claims.
MkToken(sig, exp, sub, jti, perms) ==
  [present |-> TRUE, sig |-> sig, exp |-> exp, sub |-> sub, jti |-> jti, user_id |-> sub,
   permissions |-> perms]

UserTokens == {MkToken(TRUE, MaxTime + LEEWAY + 1, "alice", j, {"user"}) : j \in SessionIds}
AdminToken == MkToken(TRUE, MaxTime + LEEWAY + 1, "root", 1, {"user", "admin"})
ExpiringToken == MkToken(TRUE, 0, "bob", 2, {"user", "admin"})
ForgedToken == MkToken(FALSE, MaxTime + LEEWAY + 1, "root", 1, {"user", "admin"})
NoSubToken == MkToken(TRUE, MaxTime + LEEWAY + 1, "", 2, {"user", "admin"})
NoJtiToken == MkToken(TRUE, MaxTime + LEEWAY + 1, "bob", 0, {"user", "admin"})

\* expired long before the run starts, and expired but within the leeway
ExpiredToken == MkToken(TRUE, 0 - LEEWAY - 1, "root", 1, {"user", "admin"})
LeewayToken == MkToken(TRUE, 0 - 1, "root", 1, {"user", "admin"})

Tokens == UserTokens \cup {AdminToken, ExpiringToken, ForgedToken, NoSubToken, NoJtiToken}

\* a request without an Authorization header and without a token parameter
NoToken == [present |-> FALSE, sig |-> FALSE, exp |-> 0, sub |-> "", jti |-> 0,
            user_id |-> "", permissions |-> {}]

\* what a client may present to extract_jwt_from_request / extract_jwt_from_headers
Credentials == Tokens \cup {NoToken}

VARIABLES
  now,              \* wall clock / Instant::now()
  active_sessions,  \* SessionManager.active_sessions: jti -> ConnectionInfo
  sm_ret            \* last SessionManager call: operation, argument, result, registry before

smVars == <<now, active_sessions, sm_ret>>

\* JwtValidator::validate_token at time t
validate_token(tok, t) ==
  IF ~tok.sig THEN [ok |-> FALSE, err |-> "Invalid token: InvalidSignature"]
  ELSE IF tok.exp + LEEWAY < t THEN [ok |-> FALSE, err |-> "Invalid token: ExpiredSignature"]
  ELSE IF tok.exp < t THEN [ok |-> FALSE, err |-> "Token expired"]
  ELSE IF tok.sub = "" \/ tok.jti = 0 THEN [ok |-> FALSE, err |-> "Invalid token claims"]
  ELSE [ok |-> TRUE, err |-> ""]

\* ConnectionInfo::new
ConnectionInfo(claims, t) ==
  [session_id |-> claims.jti, user_id |-> claims.user_id, connected_at |-> t,
   last_heartbeat |-> t, permissions |-> claims.permissions]

\* is_stale with >= for >: a session is stale once its age reaches the timeout
is_stale_AtTimeout(info, timeout, t) == t - info.last_heartbeat >= timeout

\* ConnectionInfo::is_stale
is_stale(info, timeout, t) == t - info.last_heartbeat > timeout

\* try_acquire_session with the capacity test off by one (> for >=)
try_acquire_session_OffByOne(sessions, tok, t) ==
  LET v == validate_token(tok, t) IN
  IF ~v.ok THEN [result |-> v.err, sessions |-> sessions]
  ELSE IF Cardinality(DOMAIN sessions) > MAX_CONNECTIONS
    THEN [result |-> "Maximum connections reached", sessions |-> sessions]
  ELSE IF tok.jti \in DOMAIN sessions
    THEN [result |-> "Session already active", sessions |-> sessions]
  ELSE [result |-> "Ok",
        sessions |-> [j \in DOMAIN sessions \cup {tok.jti} |->
                        IF j = tok.jti THEN ConnectionInfo(tok, t) ELSE sessions[j]]]

\* try_acquire_session without the contains_key test: insert replaces the entry
try_acquire_session_NoCollision(sessions, tok, t) ==
  LET v == validate_token(tok, t) IN
  IF ~v.ok THEN [result |-> v.err, sessions |-> sessions]
  ELSE IF Cardinality(DOMAIN sessions) >= MAX_CONNECTIONS
    THEN [result |-> "Maximum connections reached", sessions |-> sessions]
  ELSE [result |-> "Ok",
        sessions |-> [j \in DOMAIN sessions \cup {tok.jti} |->
                        IF j = tok.jti THEN ConnectionInfo(tok, t) ELSE sessions[j]]]

\* SessionManager::try_acquire_session: result and registry afterwards
try_acquire_session(sessions, tok, t) ==
  LET v == validate_token(tok, t) IN
  IF ~v.ok THEN [result |-> v.err, sessions |-> sessions]
  ELSE IF Cardinality(DOMAIN sessions) >= MAX_CONNECTIONS
    THEN [result |-> "Maximum connections reached", sessions |-> sessions]
  ELSE IF tok.jti \in DOMAIN sessions
    THEN [result |-> "Session already active", sessions |-> sessions]
  ELSE [result |-> "Ok",
        sessions |-> [j \in DOMAIN sessions \cup {tok.jti} |->
                        IF j = tok.jti THEN ConnectionInfo(tok, t) ELSE sessions[j]]]

\* a release that empties the registry when the session id is not registered
release_session_OrAll(sessions, sid) ==
  IF sid \in DOMAIN sessions THEN [j \in DOMAIN sessions \ {sid} |-> sessions[j]] ELSE << >>

\* SessionManager::release_session
release_session(sessions, sid) ==
  [j \in DOMAIN sessions \ {sid} |-> sessions[j]]

\* a heartbeat that registers the session when the id is unknown
update_heartbeat_Upserts(sessions, sid, t) ==
  [j \in DOMAIN sessions \cup {sid} |->
     IF j # sid THEN sessions[j]
     ELSE IF sid \in DOMAIN sessions THEN [sessions[j] EXCEPT !.last_heartbeat = t]
     ELSE [session_id |-> sid, user_id |-> "", connected_at |-> t, last_heartbeat |-> t,
           permissions |-> {}]]

\* SessionManager::update_heartbeat
update_heartbeat(sessions, sid, t) ==
  [j \in DOMAIN sessions |->
     IF j = sid THEN [sessions[j] EXCEPT !.last_heartbeat = t] ELSE sessions[j]]

\* SessionManager::cleanup_stale_sessions
cleanup_stale_sessions(sessions, t) ==
  LET keep == {j \in DOMAIN sessions : ~is_stale(sessions[j], CONNECTION_TIMEOUT_SECS, t)} IN
  [cleaned |-> Cardinality(DOMAIN sessions) - Cardinality(keep),
   sessions |-> [j \in keep |-> sessions[j]]]

InitSession ==
  /\ now = 0
  /\ active_sessions = << >>
  /\ sm_ret = [op |-> "new", arg |-> None, result |-> "Ok", pre |-> << >>, at |-> 0]

\* the clock advances
Tick ==
  /\ now < MaxTime
  /\ now' = now + 1
  /\ UNCHANGED <<active_sessions, sm_ret>>

\* a connection calls try_acquire_session(token)
TryAcquireSession(tok) ==
  LET r == try_acquire_session(active_sessions, tok, now) IN
  /\ active_sessions' = r.sessions
  /\ sm_ret' = [op |-> "try_acquire_session", arg |-> tok, result |-> r.result,
                pre |-> active_sessions, at |-> now]
  /\ UNCHANGED now

\* a connection calls release_session(session_id)
ReleaseSession(sid) ==
  /\ active_sessions' = release_session(active_sessions, sid)
  /\ sm_ret' = [op |-> "release_session", arg |-> sid, result |-> "Ok",
                pre |-> active_sessions, at |-> now]
  /\ UNCHANGED now

\* a heartbeat task calls update_heartbeat(session_id)
UpdateHeartbeat(sid) ==
  /\ active_sessions' = update_heartbeat(active_sessions, sid, now)
  /\ sm_ret' = [op |-> "update_heartbeat", arg |-> sid, result |-> "Ok",
                pre |-> active_sessions, at |-> now]
  /\ UNCHANGED now

\* the background sweep calls cleanup_stale_sessions()
CleanupStaleSessions ==
  LET r == cleanup_stale_sessions(active_sessions, now) IN
  /\ active_sessions' = r.sessions
  /\ sm_ret' = [op |-> "cleanup_stale_sessions", arg |-> None, result |-> r.cleaned,
                pre |-> active_sessions, at |-> now]
  /\ UNCHANGED now

(***************************************************************************)
(* PubSubManager (data/pubsub.rs) over tokio broadcast channels             *)
(***************************************************************************)
\* config.rs:16 sets BROADCAST_CHANNEL_SIZE to 100 (the capacity main.rs:136
\* gives PubSubManager::new); scaled down.
BROADCAST_CHANNEL_SIZE == 1
\* capacities a PubSubManager or the admin channel may be built with
MaxCapacity == 3
Capacities == 1..MaxCapacity
Symbols == {"NIFTY", "BANK"}
\* session ids used by direct callers of the bus
BusSessions == {1, 2}
\* number of broadcast receivers alive at the same time
MaxReceivers == Cardinality(BusSessions)

VARIABLES
  symbol_channels,        \* symbol -> messages accepted by the channel's Sender, oldest first
  session_subscriptions,  \* session id -> set of symbols
  receivers,              \* live broadcast::Receiver values: id -> [symbol, next, session]
  pub_count,              \* number of broadcast_to_symbol calls so far
  ps_ret,                 \* last PubSubManager call or recv and its result
  channel_capacity        \* the capacity asked of broadcast::channel

psVars ==
  <<symbol_channels, session_subscriptions, receivers, pub_count, ps_ret, channel_capacity>>

\* the (session, symbol) pairs of the session index
Bindings(sessions) == {<<s, x>> \in (DOMAIN sessions) \X Symbols : x \in sessions[s]}

\* Sender::receiver_count
receiver_count(rcv, x) == Cardinality({r \in DOMAIN rcv : rcv[r].symbol = x})

\* the id given to the next receiver
FreshReceiver(rcv) == CHOOSE r \in 1..(Cardinality(DOMAIN rcv) + 1) : r \notin DOMAIN rcv

Min(a, b) == IF a < b THEN a ELSE b
Max(a, b) == IF a > b THEN a ELSE b

\* usize::next_power_of_two
RECURSIVE PowerOfTwoFrom(_, _)
PowerOfTwoFrom(p, n) == IF p >= n THEN p ELSE PowerOfTwoFrom(2 * p, n)
next_power_of_two(n) == PowerOfTwoFrom(1, n)

\* slots of the ring broadcast::channel(cap) allocates: tokio rounds the capacity it
\* is asked for up to a power of two
RingSize(cap) == next_power_of_two(cap)

\* number of broadcast_to_symbol calls explored: one more than fills the ring, and
\* as many again as the rounding added slots
MaxPublish == 2 * RingSize(channel_capacity) - channel_capacity + 1

\* position in the channel of the oldest message still retained by the ring
Oldest(chan, cap) == Max(1, Len(chan) - RingSize(cap) + 1)

\* subscribe without the test for an existing (session, symbol) binding
subscribe_NoDuplicateTest(channels, sessions, rcv, sid, x) ==
  LET ch == IF x \in DOMAIN channels THEN channels
            ELSE [y \in DOMAIN channels \cup {x} |->
                    IF y = x THEN << >> ELSE channels[y]]
      r == FreshReceiver(rcv)
  IN [result |-> "Ok", rx |-> {r},
      channels |-> ch,
      sessions |-> [s \in DOMAIN sessions \cup {sid} |->
                      IF s = sid
                        THEN (IF sid \in DOMAIN sessions THEN sessions[sid] ELSE {}) \cup {x}
                        ELSE sessions[s]],
      receivers |-> [q \in DOMAIN rcv \cup {r} |->
                       IF q = r THEN [symbol |-> x, next |-> Len(ch[x]) + 1, session |-> sid]
                       ELSE rcv[q]]]

\* PubSubManager::subscribe: result, receiver handed out (rx: empty or the one receiver
\* id) and the maps afterwards
subscribe(channels, sessions, rcv, sid, x) ==
  IF sid \in DOMAIN sessions /\ x \in sessions[sid]
    THEN [result |-> "already subscribed", rx |-> {},
          channels |-> channels, sessions |-> sessions, receivers |-> rcv]
  ELSE
    LET ch == IF x \in DOMAIN channels THEN channels
              ELSE [y \in DOMAIN channels \cup {x} |->
                      IF y = x THEN << >> ELSE channels[y]]
        r == FreshReceiver(rcv)
    IN [result |-> "Ok", rx |-> {r},
        channels |-> ch,
        sessions |-> [s \in DOMAIN sessions \cup {sid} |->
                        IF s = sid
                          THEN (IF sid \in DOMAIN sessions THEN sessions[sid] ELSE {}) \cup {x}
                          ELSE sessions[s]],
        receivers |-> [q \in DOMAIN rcv \cup {r} |->
                         IF q = r THEN [symbol |-> x, next |-> Len(ch[x]) + 1, session |-> sid]
                         ELSE rcv[q]]]

\* unsubscribe that drops the whole session entry when one symbol is removed
unsubscribe_DropsEntry(sessions, sid, x) ==
  IF x # None THEN
    IF sid \in DOMAIN sessions THEN
      IF x \in sessions[sid] THEN
        [ok |-> TRUE, result |-> "Ok", removed |-> {x},
         sessions |-> [s \in DOMAIN sessions \ {sid} |-> sessions[s]]]
      ELSE [ok |-> FALSE, result |-> "not subscribed", removed |-> {}, sessions |-> sessions]
    ELSE [ok |-> FALSE, result |-> "has no subscriptions", removed |-> {},
          sessions |-> sessions]
  ELSE
    IF sid \in DOMAIN sessions THEN
      [ok |-> TRUE, result |-> "Ok", removed |-> sessions[sid],
       sessions |-> [s \in DOMAIN sessions \ {sid} |-> sessions[s]]]
    ELSE [ok |-> TRUE, result |-> "Ok", removed |-> {}, sessions |-> sessions]

\* PubSubManager::unsubscribe: Ok with the symbols removed or the error, and the
\* index afterwards
unsubscribe(sessions, sid, x) ==
  IF x # None THEN
    IF sid \in DOMAIN sessions THEN
      IF x \in sessions[sid] THEN
        [ok |-> TRUE, result |-> "Ok", removed |-> {x},
         sessions |-> IF sessions[sid] = {x}
                        THEN [s \in DOMAIN sessions \ {sid} |-> sessions[s]]
                        ELSE [sessions EXCEPT ![sid] = @ \ {x}]]
      ELSE [ok |-> FALSE, result |-> "not subscribed", removed |-> {}, sessions |-> sessions]
    ELSE [ok |-> FALSE, result |-> "has no subscriptions", removed |-> {},
          sessions |-> sessions]
  ELSE
    IF sid \in DOMAIN sessions THEN
      [ok |-> TRUE, result |-> "Ok", removed |-> sessions[sid],
       sessions |-> [s \in DOMAIN sessions \ {sid} |-> sessions[s]]]
    ELSE [ok |-> TRUE, result |-> "Ok", removed |-> {}, sessions |-> sessions]

\* PubSubManager::cleanup_session
cleanup_session(sessions, sid) == unsubscribe(sessions, sid, None).sessions

\* a broadcast that creates the channel of a symbol that has none
broadcast_to_symbol_CreatesTopic(channels, rcv, x, data) ==
  IF x \in DOMAIN channels THEN
    IF receiver_count(rcv, x) > 0
      THEN [count |-> receiver_count(rcv, x),
            channels |-> [channels EXCEPT ![x] = Append(@, data)]]
      ELSE [count |-> 0, channels |-> channels]
  ELSE [count |-> 0,
        channels |-> [y \in DOMAIN channels \cup {x} |->
                        IF y = x THEN << >> ELSE channels[y]]]

\* PubSubManager::broadcast_to_symbol: subscriber count returned and the channels afterwards
broadcast_to_symbol(channels, rcv, x, data) ==
  IF x \in DOMAIN channels THEN
    IF receiver_count(rcv, x) > 0
      THEN [count |-> receiver_count(rcv, x),
            channels |-> [channels EXCEPT ![x] = Append(@, data)]]
      ELSE [count |-> 0, channels |-> channels]
  ELSE [count |-> 0, channels |-> channels]

\* recv whose lag report counts one message too many
recv_LagOffByOne(channels, rx, cap) ==
  LET chan == channels[rx.symbol] IN
  IF rx.next < Oldest(chan, cap)
    THEN [kind |-> "Lagged", value |-> Oldest(chan, cap) - rx.next + 1,
          rx |-> [rx EXCEPT !.next = Oldest(chan, cap)]]
    ELSE [kind |-> "Ok", value |-> chan[rx.next], rx |-> [rx EXCEPT !.next = @ + 1]]

\* broadcast::Receiver::recv when it does not have to wait: the value or the lag
\* report, and the receiver afterwards
recv(channels, rx, cap) ==
  LET chan == channels[rx.symbol] IN
  IF rx.next < Oldest(chan, cap)
    THEN [kind |-> "Lagged", value |-> Oldest(chan, cap) - rx.next,
          rx |-> [rx EXCEPT !.next = Oldest(chan, cap)]]
    ELSE [kind |-> "Ok", value |-> chan[rx.next], rx |-> [rx EXCEPT !.next = @ + 1]]

\* recv would not suspend
CanRecv(channels, rx) == rx.next <= Len(channels[rx.symbol])

\* dropping a receiver
DropRx(rcv, r) == [q \in DOMAIN rcv \ {r} |-> rcv[q]]

\* PubSubManager::new(channel_capacity)
NewBus(cap) ==
  /\ symbol_channels = << >>
  /\ session_subscriptions = << >>
  /\ receivers = << >>
  /\ pub_count = 0
  /\ ps_ret = [op |-> "new", session |-> 0, symbol |-> None, ok |-> TRUE,
               result |-> "Ok", removed |-> {}, rx |-> {}, count |-> 0]
  /\ channel_capacity = cap

\* main.rs builds the bus with BROADCAST_CHANNEL_SIZE
InitBus == NewBus(BROADCAST_CHANNEL_SIZE)

\* a caller of the bus subscribes session sid to symbol x and keeps the receiver
Subscribe(sid, x) ==
  LET r == subscribe(symbol_channels, session_subscriptions, receivers, sid, x) IN
  /\ r.rx # {} => Cardinality(DOMAIN receivers) < MaxReceivers
  /\ symbol_channels' = r.channels
  /\ session_subscriptions' = r.sessions
  /\ receivers' = r.receivers
  /\ ps_ret' = [op |-> "subscribe", session |-> sid, symbol |-> x, ok |-> r.result = "Ok",
                result |-> r.result, removed |-> {}, rx |-> r.rx, count |-> 0]
  /\ UNCHANGED <<pub_count, channel_capacity>>

\* a caller unsubscribes session sid from symbol x, or from all symbols (x = None)
Unsubscribe(sid, x) ==
  LET r == unsubscribe(session_subscriptions, sid, x) IN
  /\ session_subscriptions' = r.sessions
  /\ ps_ret' = [op |-> "unsubscribe", session |-> sid, symbol |-> x, ok |-> r.ok,
                result |-> r.result, removed |-> r.removed, rx |-> {}, count |-> 0]
  /\ UNCHANGED <<symbol_channels, receivers, pub_count, channel_capacity>>

\* a caller runs cleanup_session(sid)
CleanupSession(sid) ==
  /\ session_subscriptions' = cleanup_session(session_subscriptions, sid)
  /\ ps_ret' = [op |-> "cleanup_session", session |-> sid, symbol |-> None, ok |-> TRUE,
                result |-> "Ok", removed |-> {}, rx |-> {}, count |-> 0]
  /\ UNCHANGED <<symbol_channels, receivers, pub_count, channel_capacity>>

\* a producer publishes the next message on symbol x
BroadcastToSymbol(x) ==
  LET data == [type |-> "tick", symbol |-> x, seq |-> pub_count + 1]
      r == broadcast_to_symbol(symbol_channels, receivers, x, data) IN
  /\ pub_count < MaxPublish
  /\ pub_count' = pub_count + 1
  /\ symbol_channels' = r.channels
  /\ ps_ret' = [op |-> "broadcast_to_symbol", session |-> 0, symbol |-> x, ok |-> TRUE,
                result |-> "Ok", removed |-> {}, rx |-> {}, count |-> r.count]
  /\ UNCHANGED <<session_subscriptions, receivers, channel_capacity>>

\* the holder of receiver r receives from it: a message (count is its sequence
\* number) or the lag report (count is the number it carries)
Recv(r) ==
  LET out == recv(symbol_channels, receivers[r], channel_capacity) IN
  /\ r \in DOMAIN receivers
  /\ CanRecv(symbol_channels, receivers[r])
  /\ receivers' = [receivers EXCEPT ![r] = out.rx]
  /\ ps_ret' = [op |-> "recv", session |-> receivers[r].session,
                symbol |-> receivers[r].symbol, ok |-> out.kind = "Ok",
                result |-> out.kind, removed |-> {}, rx |-> {r},
                count |-> IF out.kind = "Ok" THEN out.value.seq ELSE out.value]
  /\ UNCHANGED <<symbol_channels, session_subscriptions, pub_count, channel_capacity>>

\* the holder of receiver r drops it
DropReceiver(r) ==
  /\ r \in DOMAIN receivers
  /\ receivers' = DropRx(receivers, r)
  /\ UNCHANGED <<symbol_channels, session_subscriptions, pub_count, ps_ret, channel_capacity>>

(***************************************************************************)
(* BroadcastController (data/controller.rs) and the HTTP admin routes       *)
(* (api/handlers.rs)                                                        *)
(***************************************************************************)
\* number of worker tasks spawned over a run
MaxWorkers == 2
\* number of HTTP requests to the admin routes over a run
MaxCalls == 3

\* threads that may be inside an HTTP handler at the same time
Callers == {1, 2}

\* what DataLoader finds on disk when load_data runs: nothing usable, or the
\* records (numbered in file order) of each symbol
DataSets == {[s \in {"NIFTY"} |-> <<1, 2>>]}
LoadFailure == [ok |-> FALSE, data |-> << >>]
LoadOutcomes == {[ok |-> TRUE, data |-> d] : d \in DataSets} \cup {LoadFailure}

\* Option<HashMap<..>>: None is the empty tuple, Some(d) the tuple of d
NoData == << >>
Some(d) == <<d>>

Commands == {"Start", "Pause", "Resume", "Stop", "Restart"}
\* route -> command, api/handlers.rs:586-590
RouteCommand ==
  [r \in {"/start-broadcast", "/pause-broadcast", "/resume-broadcast",
          "/stop-broadcast", "/restart-broadcast"} |->
     CASE r = "/start-broadcast" -> "Start"
       [] r = "/pause-broadcast" -> "Pause"
       [] r = "/resume-broadcast" -> "Resume"
       [] r = "/stop-broadcast" -> "Stop"
       [] r = "/restart-broadcast" -> "Restart"]
AdminRoutes == DOMAIN RouteCommand \cup {"/broadcast-status"}

VARIABLES
  state,           \* BroadcastController.state
  cancel_handles,  \* BroadcastController.cancel_handles: the JoinHandles (worker ids)
  loaded_data,     \* BroadcastController.loaded_data: NoData or Some(symbol -> records)
  workers,         \* spawned worker tasks: id -> [symbol, data, i, pc, aborted]
  calls,           \* per HTTP thread: the request it is executing and where it is
  ctl_ret,         \* last command that returned: command, result, state it found
  last_write,      \* last write to state by a command: command, value before and after
  call_count,      \* number of requests to the admin routes so far
  http_resp        \* last HTTP response of an admin route

ctlVars == <<state, cancel_handles, loaded_data, workers, calls, ctl_ret, last_write,
             call_count, http_resp>>

IdleCall == [pc |-> "idle", cmd |-> None, entitled |-> FALSE, clean |-> TRUE,
             from |-> None, seen |-> << >>]

\* what HTTP clients present on the admin routes
HttpCredentials ==
  {NoToken, ForgedToken, ExpiredToken, LeewayToken, NoSubToken, AdminToken,
   MkToken(TRUE, MaxTime + LEEWAY + 1, "alice", 1, {"user"})}

\* the caller holds a token that verifies at time t and carries the "admin" permission
Entitled(cred, t) ==
  /\ cred.present /\ cred.sig /\ cred.exp >= t
  /\ cred.sub # "" /\ cred.jti # 0
  /\ "admin" \in cred.permissions

Active(k) == calls[k].pc # "idle"

\* the gate of the admin routes without the test for the "admin" permission
authenticate_admin_NoPermissionTest(cred, t) ==
  IF ~cred.present THEN 401
  ELSE IF ~validate_token(cred, t).ok THEN 401
  ELSE 0

\* extract_jwt_from_headers + authenticate_request + the "admin" permission
\* check that opens every admin route: the status answered, 0 when the
\* request is let through
authenticate_admin(cred, t) ==
  IF ~cred.present THEN 401
  ELSE IF ~validate_token(cred, t).ok THEN 401
  ELSE IF "admin" \notin cred.permissions THEN 403
  ELSE 0

\* status code an admin route answers when its command returns
CommandStatus(cmd, ok) ==
  IF ok THEN 200
  ELSE IF cmd \in {"Pause", "Resume"} THEN 400
  ELSE 500

\* BroadcastController::clear_handles: every handle is aborted (a task that has
\* ended is left alone) and the list emptied
clear_handles(w, handles) ==
  [id \in DOMAIN w |->
     IF id \in handles /\ w[id].pc \notin {"done", "cancelled"}
       THEN [w[id] EXCEPT !.aborted = TRUE] ELSE w[id]]

\* BroadcastController::get_status_info, from the state read first and the data read second
get_status_info(st, data) ==
  [state |-> st,
   symbol_count |-> IF data = NoData THEN 0 ELSE Cardinality(DOMAIN data[1]),
   total_records |-> IF data = NoData THEN 0
                     ELSE LET RECURSIVE Sum(_)
                              Sum(S) == IF S = {} THEN 0
                                        ELSE LET x == CHOOSE y \in S : TRUE
                                             IN Len(data[1][x]) + Sum(S \ {x})
                          IN Sum(DOMAIN data[1])]

\* the body of a response that carries no status: success false
NoBody == [success |-> FALSE, info |-> << >>]

InitCtl ==
  /\ state = "Stopped"
  /\ cancel_handles = {}
  /\ loaded_data = NoData
  /\ workers = << >>
  /\ calls = [k \in Callers |-> IdleCall]
  /\ ctl_ret = [cmd |-> None, ok |-> TRUE, result |-> None, from |-> None, clean |-> TRUE,
                status |-> 0, entitled |-> FALSE]
  /\ last_write = [cmd |-> None, from |-> "Stopped", to |-> "Stopped"]
  /\ call_count = 0
  /\ http_resp = [route |-> None, status |-> 0, entitled |-> FALSE, body |-> NoBody]

\* a call that starts makes every call in progress an overlapped one
Overlap(k, c) ==
  [j \in Callers |-> IF j = k THEN c
                     ELSE IF Active(j) THEN [calls[j] EXCEPT !.clean = FALSE] ELSE calls[j]]

\* the command of thread k returns
Return(k, ok, result) ==
  /\ ctl_ret' = [cmd |-> calls[k].cmd, ok |-> ok, result |-> result,
                 from |-> calls[k].from, clean |-> calls[k].clean,
                 status |-> CommandStatus(calls[k].cmd, ok), entitled |-> calls[k].entitled]
  /\ calls' = [calls EXCEPT ![k] = IdleCall]

\* an admin route is called without a token that verifies and carries "admin":
\* the handler answers 401 or 403 and returns
HttpReject(k, route, cred) ==
  /\ ~Active(k)
  /\ authenticate_admin(cred, now) # 0
  /\ call_count < MaxCalls
  /\ call_count' = call_count + 1
  /\ http_resp' = [route |-> route, status |-> authenticate_admin(cred, now),
                   entitled |-> Entitled(cred, now), body |-> NoBody]
  /\ UNCHANGED <<state, cancel_handles, loaded_data, workers, calls, ctl_ret, last_write>>

\* execute_command: the match on (state, command) under the state lock
ExecuteCommand(k, route, cred) ==
  LET cmd == RouteCommand[route]
      c == [pc |-> "idle", cmd |-> cmd, entitled |-> Entitled(cred, now),
            clean |-> \A j \in Callers \ {k} : ~Active(j), from |-> state, seen |-> << >>]
  IN
  /\ ~Active(k)
  /\ route \in DOMAIN RouteCommand
  /\ authenticate_admin(cred, now) = 0
  /\ cmd \in {"Start", "Restart"} => Cardinality(DOMAIN workers) < MaxWorkers
  /\ call_count < MaxCalls
  /\ call_count' = call_count + 1
  /\ CASE state = "Stopped" /\ cmd = "Start" ->
            /\ calls' = Overlap(k, [c EXCEPT !.pc = "load"])
            /\ UNCHANGED <<state, ctl_ret, last_write>>
       [] state = "Running" /\ cmd = "Pause" ->
            /\ state' = "Paused"
            /\ last_write' = [cmd |-> cmd, from |-> state, to |-> "Paused"]
            /\ ctl_ret' = [cmd |-> cmd, ok |-> TRUE, result |-> "paused", from |-> state,
                           clean |-> c.clean, status |-> CommandStatus(cmd, TRUE),
                           entitled |-> c.entitled]
            /\ calls' = Overlap(k, IdleCall)
       [] state = "Paused" /\ cmd = "Resume" ->
            /\ state' = "Running"
            /\ last_write' = [cmd |-> cmd, from |-> state, to |-> "Running"]
            /\ ctl_ret' = [cmd |-> cmd, ok |-> TRUE, result |-> "resumed", from |-> state,
                           clean |-> c.clean, status |-> CommandStatus(cmd, TRUE),
                           entitled |-> c.entitled]
            /\ calls' = Overlap(k, IdleCall)
       [] cmd \in {"Stop", "Restart"} ->
            /\ calls' = Overlap(k, [c EXCEPT !.pc = "stop_clear"])
            /\ UNCHANGED <<state, ctl_ret, last_write>>
       [] OTHER ->
            /\ ctl_ret' = [cmd |-> cmd, ok |-> FALSE, result |-> "illegal_transition",
                           from |-> state, clean |-> c.clean,
                           status |-> CommandStatus(cmd, FALSE), entitled |-> c.entitled]
            /\ calls' = Overlap(k, IdleCall)
            /\ UNCHANGED <<state, last_write>>
  /\ UNCHANGED <<cancel_handles, loaded_data, workers, http_resp>>

\* stop_broadcasting, first lock: clear_handles
StopClearHandles(k) ==
  /\ calls[k].pc = "stop_clear"
  /\ workers' = clear_handles(workers, cancel_handles)
  /\ cancel_handles' = {}
  /\ calls' = [calls EXCEPT ![k].pc = "stop_state"]
  /\ UNCHANGED <<state, loaded_data, ctl_ret, last_write, call_count, http_resp>>

\* stop_broadcasting, second lock: state = Stopped
StopSetState(k) ==
  /\ calls[k].pc = "stop_state"
  /\ state' = "Stopped"
  /\ last_write' = [cmd |-> calls[k].cmd, from |-> state, to |-> "Stopped"]
  /\ calls' = [calls EXCEPT ![k].pc = "stop_data"]
  /\ UNCHANGED <<cancel_handles, loaded_data, workers, ctl_ret, call_count, http_resp>>

\* stop_broadcasting that keeps the loaded data
StopDropData_KeepsData(k) ==
  /\ calls[k].pc = "stop_data"
  /\ IF calls[k].cmd = "Restart"
       THEN /\ calls' = [calls EXCEPT ![k].pc = "load"]
            /\ UNCHANGED ctl_ret
       ELSE Return(k, TRUE, "stopped")
  /\ UNCHANGED <<state, cancel_handles, loaded_data, workers, last_write, call_count,
                 http_resp>>

\* stop_broadcasting, third lock: loaded_data = None; Stop returns, Restart goes on
\* to start_broadcasting
StopDropData(k) ==
  /\ calls[k].pc = "stop_data"
  /\ loaded_data' = NoData
  /\ IF calls[k].cmd = "Restart"
       THEN /\ calls' = [calls EXCEPT ![k].pc = "load"]
            /\ UNCHANGED ctl_ret
       ELSE Return(k, TRUE, "stopped")
  /\ UNCHANGED <<state, cancel_handles, workers, last_write, call_count, http_resp>>

\* start_broadcasting: load_data, and on success the store into loaded_data
StartLoad(k, outcome) ==
  /\ calls[k].pc = "load"
  /\ IF ~outcome.ok
       THEN /\ Return(k, FALSE, "load_failure")
            /\ UNCHANGED loaded_data
       ELSE /\ loaded_data' = Some(outcome.data)
            /\ calls' = [calls EXCEPT ![k].pc = "start_clear", ![k].seen = outcome.data]
            /\ UNCHANGED ctl_ret
  /\ UNCHANGED <<state, cancel_handles, workers, last_write, call_count, http_resp>>

\* start_broadcasting: clear_handles
StartClearHandles(k) ==
  /\ calls[k].pc = "start_clear"
  /\ workers' = clear_handles(workers, cancel_handles)
  /\ cancel_handles' = {}
  /\ calls' = [calls EXCEPT ![k].pc = "spawn"]
  /\ UNCHANGED <<state, loaded_data, ctl_ret, last_write, call_count, http_resp>>

\* the worker spawned by start_symbol_broadcast for one symbol
NewWorker(sym, data) ==
  [symbol |-> sym, data |-> data, i |-> 1, aborted |-> FALSE,
   pc |-> IF data = << >> THEN "done" ELSE "tick", sent |-> 0]

\* a task that has ended (pc "done": the loop is left; "cancelled": dropped by an
\* abort) gives up the records it captured, and an abort no longer concerns it;
\* sent counts the records it has handed to broadcast_to_symbol
Finished(wk, pc) ==
  [wk EXCEPT !.pc = pc, !.aborted = FALSE, !.i = 0, !.data = << >>]

\* start_broadcasting: one start_symbol_broadcast per symbol, then the handles are stored
StartSpawn(k) ==
  LET data == calls[k].seen
      syms == DOMAIN data
      base == Cardinality(DOMAIN workers)
      \* the i-th symbol gets worker id base + i
      ids == CHOOSE f \in [syms -> (base + 1)..(base + Cardinality(syms))] :
               \A a, b \in syms : a # b => f[a] # f[b]
      new == {ids[x] : x \in syms}
  IN
  /\ calls[k].pc = "spawn"
  /\ base + Cardinality(syms) <= MaxWorkers
  /\ workers' = [id \in DOMAIN workers \cup new |->
                   IF id \in new
                     THEN LET x == CHOOSE y \in syms : ids[y] = id IN NewWorker(x, data[x])
                     ELSE workers[id]]
  /\ cancel_handles' = new
  /\ calls' = [calls EXCEPT ![k].pc = "set_running"]
  /\ UNCHANGED <<state, loaded_data, ctl_ret, last_write, call_count, http_resp>>

\* start_broadcasting: state = Running, and the command returns
StartSetRunning(k) ==
  /\ calls[k].pc = "set_running"
  /\ state' = "Running"
  /\ last_write' = [cmd |-> calls[k].cmd, from |-> state, to |-> "Running"]
  /\ Return(k, TRUE, "started")
  /\ UNCHANGED <<cancel_handles, loaded_data, workers, call_count, http_resp>>

\* GET /broadcast-status: get_status_info reads the state ...
StatusReadState(k, cred) ==
  /\ ~Active(k)
  /\ authenticate_admin(cred, now) = 0
  /\ calls' = Overlap(k, [pc |-> "status_data", cmd |-> "Status",
                          entitled |-> Entitled(cred, now),
                          clean |-> \A j \in Callers \ {k} : ~Active(j),
                          from |-> state, seen |-> << >>])
  /\ call_count < MaxCalls
  /\ call_count' = call_count + 1
  /\ UNCHANGED <<state, cancel_handles, loaded_data, workers, ctl_ret, last_write,
                 http_resp>>

\* ... and then the loaded data, and answers
StatusReadData(k) ==
  /\ calls[k].pc = "status_data"
  /\ http_resp' = [route |-> "/broadcast-status", status |-> 200,
                   entitled |-> calls[k].entitled,
                   body |-> [success |-> TRUE,
                             info |-> <<get_status_info(calls[k].from, loaded_data)>>]]
  /\ calls' = [calls EXCEPT ![k] = IdleCall]
  /\ UNCHANGED <<state, cancel_handles, loaded_data, workers, ctl_ret, last_write, call_count>>

\* the message a worker publishes for record rec of symbol sym (StockMessage::new)
StockMessage(sym, rec) == [type |-> "tick", symbol |-> sym, seq |-> rec]

\* worker: interval_timer.tick().await returns and should_continue is read from the state
WorkerTick(w) ==
  /\ workers[w].pc = "tick" /\ ~workers[w].aborted
  /\ workers' = [workers EXCEPT ![w] = IF state = "Stopped" THEN Finished(@, "done")
                                        ELSE [@ EXCEPT !.pc = "while"]]
  /\ UNCHANGED <<state, cancel_handles, loaded_data, calls, ctl_ret, last_write, call_count,
                 http_resp>>

\* worker: an aborted task is dropped at the await it is suspended in
WorkerCancel(w) ==
  /\ workers[w].pc \in {"tick", "sleep"} /\ workers[w].aborted
  /\ workers' = [workers EXCEPT ![w] = Finished(@, "cancelled")]
  /\ UNCHANGED <<state, cancel_handles, loaded_data, calls, ctl_ret, last_write, call_count,
                 http_resp>>

\* worker: the condition of the pause loop
WorkerWhilePaused(w) ==
  /\ workers[w].pc = "while"
  /\ workers' = [workers EXCEPT ![w].pc = IF state = "Paused" THEN "sleep" ELSE "final"]
  /\ UNCHANGED <<state, cancel_handles, loaded_data, calls, ctl_ret, last_write, call_count,
                 http_resp>>

\* worker: sleep(100ms).await returns and is_stopped is read from the state
WorkerSleep(w) ==
  /\ workers[w].pc = "sleep" /\ ~workers[w].aborted
  /\ workers' = [workers EXCEPT ![w].pc = IF state = "Stopped" THEN "final" ELSE "while"]
  /\ UNCHANGED <<state, cancel_handles, loaded_data, calls, ctl_ret, last_write, call_count,
                 http_resp>>

\* worker: should_broadcast, the final read of the state
WorkerFinalCheck(w) ==
  /\ workers[w].pc = "final"
  /\ workers' = [workers EXCEPT ![w] = IF state = "Running" THEN [@ EXCEPT !.pc = "publish"]
                                        ELSE Finished(@, "done")]
  /\ UNCHANGED <<state, cancel_handles, loaded_data, calls, ctl_ret, last_write, call_count,
                 http_resp>>

\* a worker that sets the state to Stopped when it has published its last record
WorkerPublish_StopsAtEnd(w) ==
  LET wk == workers[w]
      msg == StockMessage(wk.symbol, wk.data[wk.i])
  IN
  /\ wk.pc = "publish"
  /\ symbol_channels' = broadcast_to_symbol(symbol_channels, receivers, wk.symbol, msg).channels
  /\ workers' = [workers EXCEPT ![w] =
                   IF wk.i = Len(wk.data) THEN Finished([@ EXCEPT !.sent = @ + 1], "done")
                   ELSE [@ EXCEPT !.i = wk.i + 1, !.pc = "tick", !.sent = @ + 1]]
  /\ state' = IF wk.i = Len(wk.data) THEN "Stopped" ELSE state
  /\ UNCHANGED <<cancel_handles, loaded_data, calls, ctl_ret, last_write, call_count,
                 http_resp>>
  /\ UNCHANGED <<session_subscriptions, receivers, pub_count, ps_ret, channel_capacity>>

\* worker: broadcast_to_symbol of the current record, then on to the next record
WorkerPublish(w) ==
  LET wk == workers[w]
      msg == StockMessage(wk.symbol, wk.data[wk.i])
  IN
  /\ wk.pc = "publish"
  /\ symbol_channels' = broadcast_to_symbol(symbol_channels, receivers, wk.symbol, msg).channels
  /\ workers' = [workers EXCEPT ![w] =
                   IF wk.i = Len(wk.data) THEN Finished([@ EXCEPT !.sent = @ + 1], "done")
                   ELSE [@ EXCEPT !.i = wk.i + 1, !.pc = "tick", !.sent = @ + 1]]
  /\ UNCHANGED <<state, cancel_handles, loaded_data, calls, ctl_ret, last_write, call_count,
                 http_resp>>
  /\ UNCHANGED <<session_subscriptions, receivers, pub_count, ps_ret, channel_capacity>>

\* the steps of the worker tasks
WorkerStep ==
  \/ \E w \in DOMAIN workers : WorkerTick(w) /\ UNCHANGED <<smVars, psVars>>
  \/ \E w \in DOMAIN workers : WorkerCancel(w) /\ UNCHANGED <<smVars, psVars>>
  \/ \E w \in DOMAIN workers : WorkerWhilePaused(w) /\ UNCHANGED <<smVars, psVars>>
  \/ \E w \in DOMAIN workers : WorkerSleep(w) /\ UNCHANGED <<smVars, psVars>>
  \/ \E w \in DOMAIN workers : WorkerFinalCheck(w) /\ UNCHANGED <<smVars, psVars>>
  \/ \E w \in DOMAIN workers : WorkerPublish(w) /\ UNCHANGED smVars

\* the steps of worker task w
WorkerRun(w) ==
  \/ WorkerTick(w) /\ UNCHANGED <<smVars, psVars>>
  \/ WorkerCancel(w) /\ UNCHANGED <<smVars, psVars>>
  \/ WorkerWhilePaused(w) /\ UNCHANGED <<smVars, psVars>>
  \/ WorkerSleep(w) /\ UNCHANGED <<smVars, psVars>>
  \/ WorkerFinalCheck(w) /\ UNCHANGED <<smVars, psVars>>
  \/ WorkerPublish(w) /\ UNCHANGED smVars

\* the steps of the commands in progress
CommandStep(k) ==
  \/ StopClearHandles(k) /\ UNCHANGED <<smVars, psVars>>
  \/ StopSetState(k) /\ UNCHANGED <<smVars, psVars>>
  \/ StopDropData(k) /\ UNCHANGED <<smVars, psVars>>
  \/ \E outcome \in LoadOutcomes : StartLoad(k, outcome) /\ UNCHANGED <<smVars, psVars>>
  \/ StartClearHandles(k) /\ UNCHANGED <<smVars, psVars>>
  \/ StartSpawn(k) /\ UNCHANGED <<smVars, psVars>>
  \/ StartSetRunning(k) /\ UNCHANGED <<smVars, psVars>>
  \/ StatusReadData(k) /\ UNCHANGED <<smVars, psVars>>

(***************************************************************************)
(* The admin order feed: the /admin handshake (main.rs), the admin          *)
(* connection (websocket/admin.rs) and the events OrderManager sends         *)
(***************************************************************************)
\* number of order events sent over a run: enough to overrun the ring, as MaxPublish
MaxEvents == MaxPublish

AdminConns == {1}
Paths == {"/admin", "/ws", "/other"}

VARIABLES
  admin_events,  \* events accepted by admin_tx, oldest first
  adm,           \* per admin connection: phase, handshake answer, admin_rx position, frames sent
  orders,        \* OrderManager.orders: order id -> Order
  user_orders,   \* OrderManager.user_orders: user id -> order ids, in order of placing
  om_ret         \* the last call to the order manager and what it returned

ordVars == <<orders, user_orders, om_ret>>
admVars == <<admin_events, adm, ordVars>>

\* the handshake callback of accept_hdr_async: the status answered (101 when the
\* upgrade goes on), is_admin and whether auth_claims is set
handshake_callback(path, cred, t) ==
  IF path = "/admin" THEN
    IF cred.present THEN
      IF validate_token(cred, t).ok THEN
        IF "admin" \in cred.permissions
          THEN [status |-> 101, is_admin |-> TRUE, auth_claims |-> TRUE]
          ELSE [status |-> 403, is_admin |-> TRUE, auth_claims |-> FALSE]
      ELSE [status |-> 401, is_admin |-> TRUE, auth_claims |-> FALSE]
    ELSE [status |-> 401, is_admin |-> TRUE, auth_claims |-> FALSE]
  ELSE IF path = "/ws" THEN [status |-> 101, is_admin |-> FALSE, auth_claims |-> FALSE]
  ELSE [status |-> 404, is_admin |-> FALSE, auth_claims |-> FALSE]

\* the admin channel seen as a channel map, and the receiver of a connection
AdminChannel == [admin |-> admin_events]
AdminRx(n) == [symbol |-> "admin", next |-> n, session |-> None]

InitAdmin ==
  /\ admin_events = << >>
  /\ adm = [a \in AdminConns |->
              [phase |-> "none", entitled |-> FALSE, status |-> 0, next |-> 1,
               frames |-> << >>]]

\* OrderManager::broadcast_admin_event: main keeps _admin_rx alive, so send stores
EmitOrderEvent ==
  /\ Len(admin_events) < MaxEvents
  /\ admin_events' = Append(admin_events, [type |-> "order_event", symbol |-> None,
                                           seq |-> Len(admin_events) + 1])
  /\ UNCHANGED <<adm, ordVars>>

\* a client connects to an admin path: admin_tx.subscribe() at accept, then the
\* handshake callback; a refused handshake ends the connection
AdminHandshake(a, path, cred) ==
  LET h == handshake_callback(path, cred, now) IN
  /\ adm[a].phase = "none"
  /\ path # "/ws"
  /\ adm' = [adm EXCEPT ![a] =
               [phase |-> IF h.status = 101 /\ h.is_admin /\ h.auth_claims
                            THEN "upgraded" ELSE "rejected",
                entitled |-> Entitled(cred, now), status |-> h.status,
                next |-> Len(admin_events) + 1, frames |-> << >>]]
  /\ UNCHANGED <<admin_events, ordVars>>

\* handle_admin_websocket_direct and the welcome frame
AdminWelcome(a) ==
  /\ adm[a].phase = "upgraded"
  /\ adm' = [adm EXCEPT ![a].phase = "open",
                        ![a].frames = Append(@, [type |-> "admin_connected", symbol |-> None,
                                                 seq |-> 0])]
  /\ UNCHANGED <<admin_events, ordVars>>

\* an event loop that leaves when recv reports a lag
AdminForward_EndsOnLag(a) ==
  LET r == recv(AdminChannel, AdminRx(adm[a].next), channel_capacity) IN
  /\ adm[a].phase = "open"
  /\ CanRecv(AdminChannel, AdminRx(adm[a].next))
  /\ adm' = [adm EXCEPT ![a].next = r.rx.next,
                        ![a].phase = IF r.kind = "Ok" THEN @ ELSE "closed",
                        ![a].frames = IF r.kind = "Ok" THEN Append(@, r.value) ELSE @]
  /\ UNCHANGED <<admin_events, ordVars>>

\* the event loop: order_events_rx.recv() gives an event or a lag report, sent as a frame
AdminForward(a) ==
  LET r == recv(AdminChannel, AdminRx(adm[a].next), channel_capacity) IN
  /\ adm[a].phase = "open"
  /\ CanRecv(AdminChannel, AdminRx(adm[a].next))
  /\ adm' = [adm EXCEPT ![a].next = r.rx.next,
                        ![a].frames = Append(@, IF r.kind = "Ok" THEN r.value
                                                ELSE [type |-> "lag_warning", symbol |-> None,
                                                      seq |-> r.value])]
  /\ UNCHANGED <<admin_events, ordVars>>

\* the connection ends: a write fails, or the read task signals close
AdminClose(a) ==
  /\ adm[a].phase \in {"upgraded", "open"}
  /\ adm' = [adm EXCEPT ![a].phase = "closed"]
  /\ UNCHANGED <<admin_events, ordVars>>

(***************************************************************************)
(* The order manager (trading/order.rs) behind the order routes             *)
(* (api/handlers.rs)                                                        *)
(***************************************************************************)
\* number of orders placed over a run
MaxOrders == 2
\* quantities are u32 in the source; the width is scaled down
QUANTITY_BITS == 2
U32 == 0..(2^QUANTITY_BITS - 1)

OrderUsers == {"alice", "bob"}
OrderIds == 1..MaxOrders

\* Option<f64>: absent, or Some of one value
Nothing == << >>
\* what makes a price of a request wrong: absent, or not positive
BadPrices == {Nothing, Some(0)}
FillPrices == {7}

\* symbols are strings, here sequences of characters
RequestSymbols == {<< >>, <<" ">>, <<"a">>}
RequestQuantity == 2

\* str::trim and str::to_uppercase
RECURSIVE trim_start(_)
trim_start(s) == IF s # << >> /\ Head(s) = " " THEN trim_start(Tail(s)) ELSE s
RECURSIVE trim_end(_)
trim_end(s) ==
  IF s # << >> /\ s[Len(s)] = " " THEN trim_end(SubSeq(s, 1, Len(s) - 1)) ELSE s
trim(s) == trim_end(trim_start(s))
to_uppercase(s) == [i \in 1..Len(s) |-> IF s[i] = "a" THEN "A" ELSE s[i]]

OrderRequest(symbol, side, order_type, quantity, price, stop_price) ==
  [symbol |-> symbol, side |-> side, order_type |-> order_type, quantity |-> quantity,
   price |-> price, stop_price |-> stop_price]

\* one well-formed request of each type, and every request that differs from one
\* of them in one field
BaseRequests ==
  {OrderRequest(<<"a">>, "buy", "market", RequestQuantity, Nothing, Nothing),
   OrderRequest(<<"a">>, "buy", "limit", RequestQuantity, Some(5), Nothing),
   OrderRequest(<<"a">>, "buy", "stop_loss", RequestQuantity, Nothing, Some(5))}
OrderRequests ==
  {[r EXCEPT !.symbol = x] : r \in BaseRequests, x \in RequestSymbols}
    \cup {[r EXCEPT !.quantity = q] : r \in BaseRequests, q \in {0, RequestQuantity}}
    \cup {[r EXCEPT !.price = p] : r \in BaseRequests, p \in BadPrices}
    \cup {[r EXCEPT !.stop_price = p] : r \in BaseRequests, p \in BadPrices}

\* OrderRequest::validate: "Ok" or the error of the first rule that fails; an
\* Option that is Some holds its value at index 1
validate(req) ==
  IF trim(req.symbol) = << >> THEN "Symbol cannot be empty"
  ELSE IF req.quantity = 0 THEN "Quantity must be greater than 0"
  ELSE IF req.order_type = "limit" /\ (req.price = Nothing \/ req.price[1] <= 0)
    THEN "Price is required and must be positive for limit orders"
  ELSE IF req.order_type = "stop_loss"
          /\ (req.stop_price = Nothing \/ req.stop_price[1] <= 0)
    THEN "Stop price is required and must be positive for stop loss orders"
  ELSE IF req.price # Nothing /\ req.price[1] <= 0 THEN "Price must be positive"
  ELSE IF req.stop_price # Nothing /\ req.stop_price[1] <= 0
    THEN "Stop price must be positive"
  ELSE "Ok"

\* Order::new that stores the symbol as it was typed
Order_AsTyped(request, user_id, id) ==
  [id |-> id, user_id |-> user_id, symbol |-> request.symbol,
   side |-> request.side, order_type |-> request.order_type,
   quantity |-> request.quantity, price |-> request.price,
   stop_price |-> request.stop_price, status |-> "pending",
   filled_quantity |-> 0, average_price |-> Nothing]

\* Order::new; Uuid::new_v4 gives an id no stored order has
Order(request, user_id, id) ==
  [id |-> id, user_id |-> user_id, symbol |-> to_uppercase(request.symbol),
   side |-> request.side, order_type |-> request.order_type,
   quantity |-> request.quantity, price |-> request.price,
   stop_price |-> request.stop_price, status |-> "pending",
   filled_quantity |-> 0, average_price |-> Nothing]

\* Order::cancel
cancel(order) == [order EXCEPT !.status = "cancelled"]

\* Order::fill: += on u32 wraps in a release build; a debug build panics on
\* overflow before anything is written
fill(order, fill_price, fill_quantity) ==
  LET sum == order.filled_quantity + fill_quantity
      filled(n) == [order EXCEPT !.filled_quantity = n,
                                 !.average_price = Some(fill_price),
                                 !.status = IF n >= order.quantity THEN "filled" ELSE @]
  IN IF sum \in U32 THEN {filled(sum)}
     ELSE {order, filled(sum % (2^QUANTITY_BITS))}

\* AdminOrderEvent::new with the snapshot of the order
AdminOrderEvent(event_type, order, user_id) ==
  [type |-> event_type, symbol |-> None, seq |-> Len(admin_events) + 1,
   order |-> order, user_id |-> user_id]

\* the status the cancel route answers an error with: contains("not found"),
\* contains("Unauthorized"), or anything else
CancelStatus(e) ==
  IF e = "Ok" THEN 200
  ELSE IF e = "Order not found" THEN 404
  ELSE IF e = "Unauthorized: You can only cancel your own orders" THEN 403
  ELSE 400

NoRequest == OrderRequest(<< >>, "buy", "market", 0, Nothing, Nothing)

InitOrders ==
  /\ orders = << >>
  /\ user_orders = << >>
  /\ om_ret = [op |-> "none", user_id |-> None, id |-> 0, result |-> "Ok", status |-> 0,
               request |-> NoRequest]

OmReturn(op, user_id, id, result, status, request) ==
  [op |-> op, user_id |-> user_id, id |-> id, result |-> result, status |-> status,
   request |-> request]

\* OrderManager::get_user_orders: the orders of the ids listed for the user, in the
\* order of the list, an id without an order being passed over (filter_map)
get_user_orders(os, uo, user_id) ==
  IF user_id \in DOMAIN uo
    THEN LET Stored(id) == id \in DOMAIN os
             ids == SelectSeq(uo[user_id], Stored)
         IN [i \in 1..Len(ids) |-> os[ids[i]]]
    ELSE << >>

\* place_order that puts the new id at the front of the user's list
PlaceOrder_IndexFirst(request, user_id) ==
  LET id == Cardinality(DOMAIN orders) + 1
      order == Order(request, user_id, id)
      e == validate(request) IN
  /\ id \in OrderIds
  /\ om_ret' = OmReturn("place_order", user_id, id, e, IF e = "Ok" THEN 200 ELSE 400, request)
  /\ IF e = "Ok"
       THEN /\ orders' = (id :> order) @@ orders
            /\ user_orders' =
                 (user_id :> (<<id>> \o (IF user_id \in DOMAIN user_orders
                                           THEN user_orders[user_id] ELSE << >>)))
                   @@ user_orders
            /\ admin_events' = Append(admin_events,
                                      AdminOrderEvent("order_placed", order, user_id))
       ELSE UNCHANGED <<orders, user_orders, admin_events>>
  /\ UNCHANGED adm

\* place_order that stores the order and sends no admin event
PlaceOrder_NoEvent(request, user_id) ==
  LET id == Cardinality(DOMAIN orders) + 1
      order == Order(request, user_id, id)
      e == validate(request) IN
  /\ id \in OrderIds
  /\ om_ret' = OmReturn("place_order", user_id, id, e, IF e = "Ok" THEN 200 ELSE 400, request)
  /\ IF e = "Ok"
       THEN /\ orders' = (id :> order) @@ orders
            /\ user_orders' =
                 (user_id :> Append(IF user_id \in DOMAIN user_orders
                                      THEN user_orders[user_id] ELSE << >>, id))
                   @@ user_orders
       ELSE UNCHANGED <<orders, user_orders>>
  /\ UNCHANGED <<adm, admin_events>>

\* OrderManager::place_order under POST /api/orders, for an authenticated user
PlaceOrder(request, user_id) ==
  LET id == Cardinality(DOMAIN orders) + 1
      order == Order(request, user_id, id)
      e == validate(request) IN
  /\ id \in OrderIds
  /\ om_ret' = OmReturn("place_order", user_id, id, e, IF e = "Ok" THEN 200 ELSE 400, request)
  /\ IF e = "Ok"
       THEN /\ orders' = (id :> order) @@ orders
            /\ user_orders' =
                 (user_id :> Append(IF user_id \in DOMAIN user_orders
                                      THEN user_orders[user_id] ELSE << >>, id))
                   @@ user_orders
            /\ admin_events' = Append(admin_events,
                                      AdminOrderEvent("order_placed", order, user_id))
       ELSE UNCHANGED <<orders, user_orders, admin_events>>
  /\ UNCHANGED adm

\* cancel_order without the test of the status: any stored order of the caller is
\* cancelled, and the event sent, again
CancelOrder_AnyStatus(order_id, user_id) ==
  LET e == IF order_id \notin DOMAIN orders THEN "Order not found"
           ELSE IF orders[order_id].user_id # user_id
             THEN "Unauthorized: You can only cancel your own orders"
           ELSE "Ok" IN
  /\ om_ret' = OmReturn("cancel_order", user_id, order_id, e, CancelStatus(e),
                        NoRequest)
  /\ IF e = "Ok"
       THEN /\ orders' = [orders EXCEPT ![order_id] = cancel(@)]
            /\ admin_events' = Append(admin_events,
                                      AdminOrderEvent("order_cancelled",
                                                      cancel(orders[order_id]), user_id))
       ELSE UNCHANGED <<orders, admin_events>>
  /\ UNCHANGED <<user_orders, adm>>

\* cancel_order without the test of the owner
CancelOrder_AnyCaller(order_id, user_id) ==
  LET e == IF order_id \notin DOMAIN orders THEN "Order not found"
           ELSE IF orders[order_id].status = "pending" THEN "Ok"
           ELSE "Order cannot be cancelled in current status" IN
  /\ om_ret' = OmReturn("cancel_order", user_id, order_id, e, CancelStatus(e),
                        NoRequest)
  /\ IF e = "Ok"
       THEN /\ orders' = [orders EXCEPT ![order_id] = cancel(@)]
            /\ admin_events' = Append(admin_events,
                                      AdminOrderEvent("order_cancelled",
                                                      cancel(orders[order_id]), user_id))
       ELSE UNCHANGED <<orders, admin_events>>
  /\ UNCHANGED <<user_orders, adm>>

\* OrderManager::cancel_order under DELETE /api/orders/:id, for an authenticated user
CancelOrder(order_id, user_id) ==
  LET e == IF order_id \notin DOMAIN orders THEN "Order not found"
           ELSE IF orders[order_id].user_id # user_id
             THEN "Unauthorized: You can only cancel your own orders"
           ELSE IF orders[order_id].status = "pending" THEN "Ok"
           ELSE "Order cannot be cancelled in current status" IN
  /\ om_ret' = OmReturn("cancel_order", user_id, order_id, e, CancelStatus(e),
                        NoRequest)
  /\ IF e = "Ok"
       THEN /\ orders' = [orders EXCEPT ![order_id] = cancel(@)]
            /\ admin_events' = Append(admin_events,
                                      AdminOrderEvent("order_cancelled",
                                                      cancel(orders[order_id]), user_id))
       ELSE UNCHANGED <<orders, admin_events>>
  /\ UNCHANGED <<user_orders, adm>>

\* a matcher applies Order::fill to a stored order; nothing is emitted
FillOrder(order_id, fill_price, fill_quantity) ==
  /\ order_id \in DOMAIN orders
  /\ \E o \in fill(orders[order_id], fill_price, fill_quantity) :
       orders' = [orders EXCEPT ![order_id] = o]
  /\ om_ret' = OmReturn("fill", orders[order_id].user_id, order_id, "Ok", 0, NoRequest)
  /\ UNCHANGED <<user_orders, admin_events, adm>>

(***************************************************************************)
(* A /ws connection: the handshake and routing (main.rs), the session       *)
(* handler with its read, write, heartbeat and forwarder tasks               *)
(* (websocket/handler.rs)                                                    *)
(***************************************************************************)
\* handler.rs:209 gives the subscription channel a capacity of 100; scaled down
SUBSCRIPTION_CHANNEL_SIZE == 2
\* number of messages a client sends over a connection
MaxCmds == 3

Conns == {1}
\* the symbols clients ask for
ClientSymbols == {"NIFTY"}
\* what a client presents at the /ws handshake
ConnCredentials == {NoToken, ForgedToken, MkToken(TRUE, MaxTime + LEEWAY + 1, "alice", 2, {"user"})}

VARIABLES
  conn,        \* per connection: handler position, tasks, channels and the frames written
  forwarders   \* forwarder tasks spawned by read tasks: id -> [conn, symbol, rx, st, hold, aborted]

connVars == <<conn, forwarders>>

\* SubscriptionMessage, the command the read task is answering, if any
Command(action, x) == [action |-> action, symbol |-> x]
NoCommand == Command("none", None)

NoConn ==
  [phase |-> "none", status |-> 0, verified |-> FALSE, jti |-> 0,
   rd |-> "none", cmd |-> NoCommand, resp |-> << >>, tasks |-> << >>, cmds |-> 0,
   queue |-> << >>, queue_open |-> FALSE, close_sent |-> FALSE,
   wr |-> "none", hb |-> "none", socket |-> << >>]

\* SubscriptionResponse
Response(status, x) == [type |-> status, symbol |-> x, seq |-> 0]

\* the jti of the claims handle_websocket_connection_direct makes up (a fresh uuid)
DummyJti(c) == c

\* JoinHandle::abort on the handles hs: a finished task is left alone
Abort(fw, hs) ==
  [f \in DOMAIN fw |->
     IF f \in hs /\ fw[f].st # "dead" THEN [fw[f] EXCEPT !.aborted = TRUE] ELSE fw[f]]

\* a forwarder task that has ended: its receiver and the message it held are dropped
Ended(fwd) == [fwd EXCEPT !.st = "dead", !.hold = << >>, !.rx = 0, !.aborted = FALSE]

InitConn ==
  /\ conn = [c \in Conns |-> NoConn]
  /\ forwarders = << >>

\* a client connects: the handshake callback answers, without looking at the token on /ws
ConnHandshake(c, path, cred) ==
  LET h == handshake_callback(path, cred, now) IN
  /\ conn[c].phase = "none"
  /\ path # "/admin"
  /\ conn' = [conn EXCEPT ![c].phase = IF h.status = 101 THEN "upgraded" ELSE "rejected",
                          ![c].status = h.status,
                          ![c].verified = cred.present /\ validate_token(cred, now).ok]
  /\ UNCHANGED forwarders

\* handle_websocket_connection_direct: claims are made up, then
\* handle_websocket_connection_with_pubsub creates the channels and spawns the tasks
ConnDirect(c) ==
  /\ conn[c].phase = "upgraded"
  /\ conn' = [conn EXCEPT ![c].phase = "open", ![c].jti = DummyJti(c),
                          ![c].rd = "run", ![c].wr = "run", ![c].hb = "run",
                          ![c].queue_open = TRUE]
  /\ UNCHANGED forwarders

\* read task, {"action": "subscribe"}: the check of subscription_tasks, subscribe,
\* the forwarder spawned and recorded, and the response readied
RdSubscribe(c, x) ==
  LET cn == conn[c]
      fid == Cardinality(DOMAIN forwarders) + 1
  IN
  /\ cn.rd = "run" /\ cn.cmds < MaxCmds
  /\ IF x \in DOMAIN cn.tasks
       THEN /\ conn' = [conn EXCEPT ![c].resp = <<Response("error", x)>>,
                                    ![c].rd = "respond", ![c].cmds = @ + 1,
                           ![c].cmd = Command("subscribe", x)]
            /\ UNCHANGED <<psVars, forwarders>>
       ELSE /\ Subscribe(cn.jti, x)
            /\ IF ps_ret'.ok
                 THEN /\ forwarders' =
                           [f \in DOMAIN forwarders \cup {fid} |->
                              IF f = fid
                                THEN [conn |-> c, symbol |-> x,
                                      rx |-> CHOOSE r \in ps_ret'.rx : TRUE,
                                      st |-> "idle", hold |-> << >>, aborted |-> FALSE]
                                ELSE forwarders[f]]
                      /\ conn' = [conn EXCEPT
                           ![c].tasks = [y \in DOMAIN cn.tasks \cup {x} |->
                                           IF y = x THEN fid ELSE cn.tasks[y]],
                           ![c].resp = <<Response("success", x)>>,
                           ![c].rd = "respond", ![c].cmds = @ + 1,
                           ![c].cmd = Command("subscribe", x)]
                 ELSE /\ conn' = [conn EXCEPT ![c].resp = <<Response("error", x)>>,
                                              ![c].rd = "respond", ![c].cmds = @ + 1,
                           ![c].cmd = Command("subscribe", x)]
                      /\ UNCHANGED forwarders

\* the unsubscribe branch treating "not subscribed" as fatal: the loop is left
RdUnsubscribe_EndsOnError(c, x) ==
  LET cn == conn[c] IN
  /\ cn.rd = "run" /\ cn.cmds < MaxCmds
  /\ IF x \in DOMAIN cn.tasks
       THEN /\ forwarders' = Abort(forwarders, {cn.tasks[x]})
            /\ Unsubscribe(cn.jti, x)
            /\ conn' = [conn EXCEPT
                 ![c].tasks = [y \in DOMAIN cn.tasks \ {x} |-> cn.tasks[y]],
                 ![c].resp = <<Response(IF ps_ret'.ok THEN "success" ELSE "error", x)>>,
                 ![c].rd = "respond", ![c].cmds = @ + 1,
                 ![c].cmd = Command("unsubscribe", x)]
       ELSE /\ conn' = [conn EXCEPT ![c].rd = "done", ![c].cmds = @ + 1,
                                    ![c].cmd = Command("unsubscribe", x),
                                    ![c].close_sent = cn.queue_open]
            /\ UNCHANGED <<psVars, forwarders>>

\* read task, {"action": "unsubscribe"}: the handle removed and aborted, unsubscribe,
\* and the response readied
RdUnsubscribe(c, x) ==
  LET cn == conn[c] IN
  /\ cn.rd = "run" /\ cn.cmds < MaxCmds
  /\ IF x \in DOMAIN cn.tasks
       THEN /\ forwarders' = Abort(forwarders, {cn.tasks[x]})
            /\ Unsubscribe(cn.jti, x)
            /\ conn' = [conn EXCEPT
                 ![c].tasks = [y \in DOMAIN cn.tasks \ {x} |-> cn.tasks[y]],
                 ![c].resp = <<Response(IF ps_ret'.ok THEN "success" ELSE "error", x)>>,
                 ![c].rd = "respond", ![c].cmds = @ + 1,
                           ![c].cmd = Command("unsubscribe", x)]
       ELSE /\ conn' = [conn EXCEPT ![c].resp = <<Response("error", x)>>,
                                    ![c].rd = "respond", ![c].cmds = @ + 1,
                           ![c].cmd = Command("unsubscribe", x)]
            /\ UNCHANGED <<psVars, forwarders>>

\* read task, {"action": "unsubscribe_all"}
RdUnsubscribeAll(c) ==
  LET cn == conn[c] IN
  /\ cn.rd = "run" /\ cn.cmds < MaxCmds
  /\ forwarders' = Abort(forwarders, {cn.tasks[y] : y \in DOMAIN cn.tasks})
  /\ Unsubscribe(cn.jti, None)
  /\ conn' = [conn EXCEPT ![c].tasks = << >>,
                          ![c].resp = <<Response(IF ps_ret'.ok THEN "success" ELSE "error", None)>>,
                          ![c].rd = "respond", ![c].cmds = @ + 1,
                           ![c].cmd = Command("unsubscribe_all", None)]

\* read task: subscription_tx.send(response).await, which waits while the channel
\* is full and fails, ignored, once the write task is gone
RdRespond(c) ==
  LET cn == conn[c] IN
  /\ cn.rd = "respond"
  /\ ~cn.queue_open \/ Len(cn.queue) < SUBSCRIPTION_CHANNEL_SIZE
  /\ conn' = [conn EXCEPT ![c].resp = << >>, ![c].rd = "run", ![c].cmd = NoCommand,
                          ![c].queue = IF cn.queue_open THEN Append(@, cn.resp[1]) ELSE @]
  /\ UNCHANGED <<psVars, forwarders>>

\* read task: a Close frame, a read error or the end of the stream; the forwarders
\* are aborted and the close signal sent
RdClose(c) ==
  LET cn == conn[c] IN
  /\ cn.rd = "run"
  /\ forwarders' = Abort(forwarders, {cn.tasks[y] : y \in DOMAIN cn.tasks})
  /\ conn' = [conn EXCEPT ![c].tasks = << >>, ![c].rd = "done",
                          ![c].close_sent = cn.queue_open]
  /\ UNCHANGED psVars

\* a forwarder, idle and not aborted or in the middle of a poll, gets the next
\* message from rx.recv(); a lag report ends its loop
FwdRecv(f) ==
  LET fwd == forwarders[f]
      r == recv(symbol_channels, receivers[fwd.rx], channel_capacity)
  IN
  /\ fwd.st = "polling" \/ (fwd.st = "idle" /\ ~fwd.aborted)
  /\ CanRecv(symbol_channels, receivers[fwd.rx])
  /\ IF r.kind = "Ok"
       THEN /\ forwarders' = [forwarders EXCEPT ![f].st = "holding", ![f].hold = <<r.value>>]
            /\ receivers' = [receivers EXCEPT ![fwd.rx] = r.rx]
       ELSE /\ forwarders' = [forwarders EXCEPT ![f] = Ended(fwd)]
            /\ receivers' = DropRx(receivers, fwd.rx)
  /\ UNCHANGED <<conn, symbol_channels, session_subscriptions, pub_count, ps_ret, channel_capacity>>

\* a forwarder passes the message it holds to tx.send(): queued, or the task waits
\* for room, or its loop ends because the write task is gone
FwdSend(f) ==
  LET fwd == forwarders[f]
      cn == conn[fwd.conn]
      room == Len(cn.queue) < SUBSCRIPTION_CHANNEL_SIZE
  IN
  /\ fwd.st = "holding" \/ (fwd.st = "blocked" /\ ~fwd.aborted /\ (room \/ ~cn.queue_open))
  /\ IF ~cn.queue_open
       THEN /\ forwarders' = [forwarders EXCEPT ![f] = Ended(fwd)]
            /\ receivers' = DropRx(receivers, fwd.rx)
            /\ UNCHANGED conn
       ELSE IF room
         THEN /\ conn' = [conn EXCEPT ![fwd.conn].queue = Append(@, fwd.hold[1])]
              /\ forwarders' = [forwarders EXCEPT ![f].st = "polling", ![f].hold = << >>]
              /\ UNCHANGED receivers
         ELSE /\ forwarders' = [forwarders EXCEPT ![f].st = "blocked"]
              /\ UNCHANGED <<conn, receivers>>
  /\ UNCHANGED <<symbol_channels, session_subscriptions, pub_count, ps_ret, channel_capacity>>

\* a forwarder finds nothing to receive and goes idle
FwdYield(f) ==
  /\ forwarders[f].st = "polling"
  /\ ~CanRecv(symbol_channels, receivers[forwarders[f].rx])
  /\ forwarders' = [forwarders EXCEPT ![f].st = "idle"]
  /\ UNCHANGED <<conn, psVars>>

\* an aborted forwarder is dropped at the await it is suspended in
FwdCancel(f) ==
  LET fwd == forwarders[f] IN
  /\ fwd.aborted /\ fwd.st \in {"idle", "blocked"}
  /\ forwarders' = [forwarders EXCEPT ![f] = Ended(fwd)]
  /\ receivers' = DropRx(receivers, fwd.rx)
  /\ UNCHANGED <<conn, symbol_channels, session_subscriptions, pub_count, ps_ret, channel_capacity>>

\* write task: a message from subscription_rx is written to the socket
WrForward(c) ==
  LET cn == conn[c] IN
  /\ cn.wr = "run" /\ cn.queue # << >>
  /\ conn' = [conn EXCEPT ![c].queue = Tail(@), ![c].socket = Append(@, Head(cn.queue))]
  /\ UNCHANGED <<forwarders, psVars>>

\* write task: the write fails and the task ends, dropping both receivers
WrError(c) ==
  LET cn == conn[c] IN
  /\ cn.wr = "run" /\ cn.queue # << >>
  /\ conn' = [conn EXCEPT ![c].wr = "done", ![c].queue = << >>, ![c].queue_open = FALSE]
  /\ UNCHANGED <<forwarders, psVars>>

\* write task: the close signal is received and the task ends, dropping both receivers
WrClose(c) ==
  LET cn == conn[c] IN
  /\ cn.wr = "run" /\ cn.close_sent
  /\ conn' = [conn EXCEPT ![c].wr = "done", ![c].queue = << >>, ![c].queue_open = FALSE]
  /\ UNCHANGED <<forwarders, psVars>>

\* heartbeat task: a tick of the interval, then update_heartbeat
HbBeat(c) ==
  /\ conn[c].hb = "run"
  /\ UpdateHeartbeat(conn[c].jti)
  /\ UNCHANGED <<conn, forwarders>>

\* a handler that waits for both tasks (join! for select!)
HCleanup_WaitsBoth(c) ==
  /\ conn[c].phase = "open"
  /\ conn[c].wr = "done" /\ conn[c].rd = "done"
  /\ CleanupSession(conn[c].jti)
  /\ conn' = [conn EXCEPT ![c].phase = "release", ![c].hb = "aborted"]
  /\ UNCHANGED forwarders

\* handler: select! returns when the write task or the read task has ended; the
\* heartbeat is aborted and cleanup_session called
HCleanup(c) ==
  /\ conn[c].phase = "open"
  /\ conn[c].wr = "done" \/ conn[c].rd = "done"
  /\ CleanupSession(conn[c].jti)
  /\ conn' = [conn EXCEPT ![c].phase = "release", ![c].hb = "aborted"]
  /\ UNCHANGED forwarders

\* handler: release_session, and the handler returns
HRelease(c) ==
  /\ conn[c].phase = "release"
  /\ ReleaseSession(conn[c].jti)
  /\ conn' = [conn EXCEPT ![c].phase = "closed"]
  /\ UNCHANGED forwarders

(***************************************************************************)
(* The authenticated handshake (handle_connection_with_pubsub)              *)
(***************************************************************************)
\* the accept_hdr_async callback: authenticate_request on the credential the client
\* presents. A missing token is answered 401 without a call of the session manager;
\* otherwise try_acquire_session registers the session or names the refusal.
HsAuthenticate(c, cred) ==
  /\ conn[c].phase \in {"none", "rejected", "failed", "closed"}
  /\ conn[c].rd # "run" /\ conn[c].wr # "run"
  /\ IF ~cred.present
       THEN /\ conn' = [conn EXCEPT ![c] = [NoConn EXCEPT !.phase = "rejected", !.status = 401]]
            /\ UNCHANGED smVars
       ELSE /\ TryAcquireSession(cred)
            /\ LET result == try_acquire_session(active_sessions, cred, now).result IN
               conn' = [conn EXCEPT ![c] =
                 IF result = "Ok"
                   THEN [NoConn EXCEPT !.phase = "acquired", !.status = 101,
                                       !.verified = TRUE, !.jti = cred.jti]
                   ELSE [NoConn EXCEPT !.phase = "rejected",
                           !.status = IF result = "Session already active" THEN 409
                                      ELSE IF result = "Maximum connections reached" THEN 503
                                      ELSE 401]]
  /\ UNCHANGED forwarders

\* the outcome of accept_hdr_async after the callback has accepted: the response
\* reaches the client and handle_websocket_connection_with_pubsub starts the tasks
\* with the claims of the token, or the handshake fails (the peer has gone) and
\* handle_connection_with_pubsub logs the error and returns
HsAccept(c, ok) ==
  /\ conn[c].phase = "acquired"
  /\ conn' = IF ok
               THEN [conn EXCEPT ![c].phase = "open", ![c].rd = "run", ![c].wr = "run",
                                 ![c].hb = "run", ![c].queue_open = TRUE]
               ELSE [conn EXCEPT ![c].phase = "failed"]
  /\ UNCHANGED forwarders

(***************************************************************************)
(* The system                                                               *)
(***************************************************************************)
vars == <<smVars, psVars, ctlVars, admVars, connVars>>

Init == InitSession /\ InitBus /\ InitCtl /\ InitAdmin /\ InitOrders /\ InitConn

NextSession ==
  \/ Tick /\ UNCHANGED <<psVars, ctlVars, admVars, connVars>>
  \/ \E tok \in Tokens : TryAcquireSession(tok) /\ UNCHANGED <<psVars, ctlVars, admVars, connVars>>
  \/ \E sid \in SessionIds : ReleaseSession(sid) /\ UNCHANGED <<psVars, ctlVars, admVars, connVars>>
  \/ \E sid \in SessionIds : UpdateHeartbeat(sid) /\ UNCHANGED <<psVars, ctlVars, admVars, connVars>>
  \/ CleanupStaleSessions /\ UNCHANGED <<psVars, ctlVars, admVars, connVars>>

SpecSession == Init /\ [][NextSession]_vars

NextBus ==
  \/ \E sid \in BusSessions, x \in Symbols :
       Subscribe(sid, x) /\ UNCHANGED <<smVars, ctlVars, admVars, connVars>>
  \/ \E sid \in BusSessions, x \in Symbols \cup {None} :
       Unsubscribe(sid, x) /\ UNCHANGED <<smVars, ctlVars, admVars, connVars>>
  \/ \E sid \in BusSessions : CleanupSession(sid) /\ UNCHANGED <<smVars, ctlVars, admVars, connVars>>
  \/ \E x \in Symbols : BroadcastToSymbol(x) /\ UNCHANGED <<smVars, ctlVars, admVars, connVars>>
  \/ \E r \in 1..MaxReceivers : Recv(r) /\ UNCHANGED <<smVars, ctlVars, admVars, connVars>>
  \/ \E r \in 1..MaxReceivers : DropReceiver(r) /\ UNCHANGED <<smVars, ctlVars, admVars, connVars>>

SpecBus == Init /\ [][NextBus]_vars

\* the same program built with any of the capacities
InitRing ==
  /\ InitSession /\ InitCtl /\ InitAdmin /\ InitOrders /\ InitConn
  /\ \E cap \in Capacities : NewBus(cap)

\* one topic, its subscribers holding their receivers, and a producer
NextRing ==
  \/ \E sid \in BusSessions :
       Subscribe(sid, "NIFTY") /\ UNCHANGED <<smVars, ctlVars, admVars, connVars>>
  \/ BroadcastToSymbol("NIFTY") /\ UNCHANGED <<smVars, ctlVars, admVars, connVars>>
  \/ \E r \in 1..MaxReceivers : Recv(r) /\ UNCHANGED <<smVars, ctlVars, admVars, connVars>>
  \/ \E r \in 1..MaxReceivers : DropReceiver(r) /\ UNCHANGED <<smVars, ctlVars, admVars, connVars>>

SpecRing == InitRing /\ [][NextRing]_vars

\* the admin feed under any of the capacities: order operations send their events
\* while an admin client connects, reads at its own pace and leaves
NextAdminRing ==
  \/ EmitOrderEvent /\ UNCHANGED <<smVars, psVars, ctlVars, connVars>>
  \/ \E a \in AdminConns, path \in Paths, cred \in HttpCredentials :
       AdminHandshake(a, path, cred) /\ UNCHANGED <<smVars, psVars, ctlVars, connVars>>
  \/ \E a \in AdminConns : AdminWelcome(a) /\ UNCHANGED <<smVars, psVars, ctlVars, connVars>>
  \/ \E a \in AdminConns : AdminForward(a) /\ UNCHANGED <<smVars, psVars, ctlVars, connVars>>
  \/ \E a \in AdminConns : AdminClose(a) /\ UNCHANGED <<smVars, psVars, ctlVars, connVars>>

SpecAdminRing == InitRing /\ [][NextAdminRing]_vars

\* users place and cancel orders while an admin client connects to the feed, reads
\* the events at its own pace and leaves
NextAdminFeed ==
  \/ \E request \in OrderRequests, u \in OrderUsers :
       PlaceOrder(request, u) /\ UNCHANGED <<smVars, psVars, ctlVars, connVars>>
  \/ \E id \in OrderIds, u \in OrderUsers :
       CancelOrder(id, u) /\ UNCHANGED <<smVars, psVars, ctlVars, connVars>>
  \/ \E a \in AdminConns, path \in Paths, cred \in HttpCredentials :
       AdminHandshake(a, path, cred) /\ UNCHANGED <<smVars, psVars, ctlVars, connVars>>
  \/ \E a \in AdminConns : AdminWelcome(a) /\ UNCHANGED <<smVars, psVars, ctlVars, connVars>>
  \/ \E a \in AdminConns : AdminForward(a) /\ UNCHANGED <<smVars, psVars, ctlVars, connVars>>
  \/ \E a \in AdminConns : AdminClose(a) /\ UNCHANGED <<smVars, psVars, ctlVars, connVars>>

SpecAdminFeed == Init /\ [][NextAdminFeed]_vars

\* admin clients drive the controller from several HTTP threads at once
NextCtl ==
  \/ \E k \in Callers, route \in DOMAIN RouteCommand :
       ExecuteCommand(k, route, AdminToken) /\ UNCHANGED <<smVars, psVars, admVars, connVars>>
  \/ \E k \in Callers : CommandStep(k) /\ UNCHANGED <<admVars, connVars>>
  \/ WorkerStep /\ UNCHANGED <<admVars, connVars>>

SpecCtl == Init /\ [][NextCtl]_vars

\* the runtime keeps polling every worker task and its timers fire; a handler that
\* has entered a command runs it to its end
SpecCtlFair ==
  /\ SpecCtl
  /\ \A w \in 1..MaxWorkers :
       WF_vars(w \in DOMAIN workers /\ WorkerRun(w) /\ UNCHANGED <<admVars, connVars>>)
  /\ \A k \in Callers : WF_vars(CommandStep(k) /\ UNCHANGED <<admVars, connVars>>)

\* clients with every kind of credential call the admin routes and the admin
\* WebSocket path, one request at a time, while orders produce events (the
\* worker tasks, which take no request, run under SpecCtl)
NextHttp ==
  \/ \E route \in AdminRoutes, cred \in HttpCredentials :
       HttpReject(1, route, cred) /\ UNCHANGED <<smVars, psVars, admVars, connVars>>
  \/ \E route \in DOMAIN RouteCommand, cred \in HttpCredentials :
       ExecuteCommand(1, route, cred) /\ UNCHANGED <<smVars, psVars, admVars, connVars>>
  \/ \E cred \in HttpCredentials :
       StatusReadState(1, cred) /\ UNCHANGED <<smVars, psVars, admVars, connVars>>
  \/ CommandStep(1) /\ UNCHANGED <<admVars, connVars>>
  \/ EmitOrderEvent /\ UNCHANGED <<smVars, psVars, ctlVars, connVars>>
  \/ \E a \in AdminConns, path \in Paths, cred \in HttpCredentials :
       AdminHandshake(a, path, cred) /\ UNCHANGED <<smVars, psVars, ctlVars, connVars>>
  \/ \E a \in AdminConns : AdminWelcome(a) /\ UNCHANGED <<smVars, psVars, ctlVars, connVars>>
  \/ \E a \in AdminConns : AdminForward(a) /\ UNCHANGED <<smVars, psVars, ctlVars, connVars>>
  \/ \E a \in AdminConns : AdminClose(a) /\ UNCHANGED <<smVars, psVars, ctlVars, connVars>>

SpecHttp == Init /\ [][NextHttp]_vars

\* a client on /ws, the tasks of its connection and a producer of ticks
NextConn ==
  \/ \E c \in Conns, path \in Paths, cred \in ConnCredentials :
       ConnHandshake(c, path, cred) /\ UNCHANGED <<smVars, psVars, ctlVars, admVars>>
  \/ \E c \in Conns : ConnDirect(c) /\ UNCHANGED <<smVars, psVars, ctlVars, admVars>>
  \/ \E c \in Conns, x \in ClientSymbols :
       RdSubscribe(c, x) /\ UNCHANGED <<smVars, ctlVars, admVars>>
  \/ \E c \in Conns, x \in ClientSymbols :
       RdUnsubscribe(c, x) /\ UNCHANGED <<smVars, ctlVars, admVars>>
  \/ \E c \in Conns : RdUnsubscribeAll(c) /\ UNCHANGED <<smVars, ctlVars, admVars>>
  \/ \E c \in Conns : RdRespond(c) /\ UNCHANGED <<smVars, ctlVars, admVars>>
  \/ \E c \in Conns : RdClose(c) /\ UNCHANGED <<smVars, ctlVars, admVars>>
  \/ \E f \in DOMAIN forwarders : FwdRecv(f) /\ UNCHANGED <<smVars, ctlVars, admVars>>
  \/ \E f \in DOMAIN forwarders : FwdSend(f) /\ UNCHANGED <<smVars, ctlVars, admVars>>
  \/ \E f \in DOMAIN forwarders : FwdYield(f) /\ UNCHANGED <<smVars, ctlVars, admVars>>
  \/ \E f \in DOMAIN forwarders : FwdCancel(f) /\ UNCHANGED <<smVars, ctlVars, admVars>>
  \/ \E c \in Conns : WrForward(c) /\ UNCHANGED <<smVars, ctlVars, admVars>>
  \/ \E c \in Conns : WrError(c) /\ UNCHANGED <<smVars, ctlVars, admVars>>
  \/ \E c \in Conns : WrClose(c) /\ UNCHANGED <<smVars, ctlVars, admVars>>
  \/ \E c \in Conns : HbBeat(c) /\ UNCHANGED <<psVars, ctlVars, admVars>>
  \/ \E c \in Conns : HCleanup(c) /\ UNCHANGED <<smVars, ctlVars, admVars>>
  \/ \E c \in Conns : HRelease(c) /\ UNCHANGED <<psVars, ctlVars, admVars>>
  \/ \E x \in ClientSymbols :
       BroadcastToSymbol(x) /\ UNCHANGED <<smVars, ctlVars, admVars, connVars>>

SpecConn == Init /\ [][NextConn]_vars

\* connections served by handle_connection_with_pubsub, the handler that
\* authenticates the handshake, while time passes and the sweep runs
NextWsAuth ==
  \/ Tick /\ UNCHANGED <<psVars, ctlVars, admVars, connVars>>
  \/ \E c \in Conns, cred \in Credentials :
       HsAuthenticate(c, cred) /\ UNCHANGED <<psVars, ctlVars, admVars>>
  \/ \E c \in Conns, ok \in BOOLEAN :
       HsAccept(c, ok) /\ UNCHANGED <<smVars, psVars, ctlVars, admVars>>
  \/ \E c \in Conns : RdClose(c) /\ UNCHANGED <<smVars, ctlVars, admVars>>
  \/ \E c \in Conns : WrClose(c) /\ UNCHANGED <<smVars, ctlVars, admVars>>
  \/ \E c \in Conns : HbBeat(c) /\ UNCHANGED <<psVars, ctlVars, admVars>>
  \/ \E c \in Conns : HCleanup(c) /\ UNCHANGED <<smVars, ctlVars, admVars>>
  \/ \E c \in Conns : HRelease(c) /\ UNCHANGED <<psVars, ctlVars, admVars>>
  \/ CleanupStaleSessions /\ UNCHANGED <<psVars, ctlVars, admVars, connVars>>

SpecWsAuth == Init /\ [][NextWsAuth]_vars

\* authenticated users place and cancel orders while a matcher fills them
NextOrder ==
  \/ \E request \in OrderRequests, u \in OrderUsers :
       PlaceOrder(request, u) /\ UNCHANGED <<smVars, psVars, ctlVars, connVars>>
  \/ \E id \in OrderIds, u \in OrderUsers :
       CancelOrder(id, u) /\ UNCHANGED <<smVars, psVars, ctlVars, connVars>>
  \/ \E id \in OrderIds, p \in FillPrices, q \in U32 :
       FillOrder(id, p, q) /\ UNCHANGED <<smVars, psVars, ctlVars, connVars>>

SpecOrder == Init /\ [][NextOrder]_vars

\* the steps of the handler of connection c once select! can return
HandlerStep(c) ==
  \/ HCleanup(c) /\ UNCHANGED <<smVars, ctlVars, admVars>>
  \/ HRelease(c) /\ UNCHANGED <<psVars, ctlVars, admVars>>

\* the runtime keeps polling a handler that is ready to run
SpecConnFair == SpecConn /\ \A c \in Conns : WF_vars(HandlerStep(c))

(***************************************************************************)
(* Properties                                                               *)
(***************************************************************************)
AcquireReturned == sm_ret.op = "try_acquire_session"
AtCapacity == Cardinality(DOMAIN sm_ret.pre) >= MAX_CONNECTIONS

\* C1, as stated: the registry never holds more than MAX_CONNECTIONS sessions, and
\* every try_acquire_session made while MAX_CONNECTIONS sessions are registered
\* fails with the capacity error and leaves the registry unchanged.
C1_CapacityWhateverToken ==
  /\ Cardinality(DOMAIN active_sessions) <= MAX_CONNECTIONS
  /\ (AcquireReturned /\ AtCapacity) =>
       /\ sm_ret.result = "Maximum connections reached"
       /\ active_sessions = sm_ret.pre

\* C1, amended: the registry never holds more than MAX_CONNECTIONS sessions; a
\* try_acquire_session made at capacity leaves the registry unchanged and fails,
\* with the capacity error when its token verifies and with the token error
\* when it does not (the token is verified first).
C1_Capacity ==
  /\ Cardinality(DOMAIN active_sessions) <= MAX_CONNECTIONS
  /\ (AcquireReturned /\ AtCapacity) =>
       /\ active_sessions = sm_ret.pre
       /\ sm_ret.result =
            IF validate_token(sm_ret.arg, sm_ret.at).ok
              THEN "Maximum connections reached"
              ELSE validate_token(sm_ret.arg, sm_ret.at).err

\* a verified token with an unregistered session id was refused at capacity
C1_Witness ==
  /\ AcquireReturned /\ AtCapacity
  /\ validate_token(sm_ret.arg, sm_ret.at).ok
  /\ sm_ret.arg.jti \notin DOMAIN sm_ret.pre
  /\ sm_ret.result = "Maximum connections reached"
  /\ Cardinality(DOMAIN active_sessions) = MAX_CONNECTIONS

\* no session id is held twice: every entry is filed under its own session id,
\* and an acquire that succeeds found its session id unregistered
SessionUniqueness ==
  /\ \A j \in DOMAIN active_sessions : active_sessions[j].session_id = j
  /\ (AcquireReturned /\ sm_ret.result = "Ok") =>
       /\ sm_ret.arg.jti \notin DOMAIN sm_ret.pre
       /\ DOMAIN active_sessions = DOMAIN sm_ret.pre \cup {sm_ret.arg.jti}

Registered ==
  /\ AcquireReturned
  /\ validate_token(sm_ret.arg, sm_ret.at).ok
  /\ sm_ret.arg.jti \in DOMAIN sm_ret.pre

\* C2, as stated: try_acquire_session with a token that verifies and whose session
\* id is registered fails with the session-collision error and leaves the registry
\* unchanged; no session id is held twice.
C2_CollisionAlways ==
  /\ Registered => (sm_ret.result = "Session already active" /\ active_sessions = sm_ret.pre)
  /\ SessionUniqueness

\* C2, amended: try_acquire_session with a token that verifies and whose session id
\* is registered fails and leaves the registry unchanged, with the session-collision
\* error while fewer than MAX_CONNECTIONS sessions are registered and with the
\* capacity error otherwise (capacity is tested first); no session id is held twice.
C2_Collision ==
  /\ Registered =>
       /\ active_sessions = sm_ret.pre
       /\ sm_ret.result = IF AtCapacity THEN "Maximum connections reached"
                          ELSE "Session already active"
  /\ SessionUniqueness

\* a second acquire with a registered session id, by another user's token, was refused
C2_Witness ==
  /\ Registered /\ ~AtCapacity
  /\ sm_ret.result = "Session already active"
  /\ sm_ret.pre[sm_ret.arg.jti].user_id # sm_ret.arg.user_id

\* the state of the gate after a request or handshake: who got through
GateHolds ==
  /\ \A k \in Callers : Active(k) => calls[k].entitled
  /\ ctl_ret.cmd # None => ctl_ret.entitled
  /\ http_resp.status = 200 => http_resp.entitled
  /\ (http_resp.route # None /\ ~http_resp.entitled) =>
       (http_resp.status \in {401, 403} /\ http_resp.body = NoBody)
  /\ \A a \in AdminConns :
       ~adm[a].entitled =>
         /\ adm[a].phase \in {"none", "rejected"}
         /\ adm[a].frames = << >>
         /\ adm[a].phase = "rejected" => adm[a].status \in {401, 403, 404}

\* C4: a request or connection whose token is missing, invalid or without the
\* "admin" permission never runs a command, never reads the status and is sent no
\* frame of the admin feed: the admin routes answer it 401 or 403 in a step that
\* leaves the controller as it was, and the /admin handshake refuses it.
C4_AdminOnly ==
  [][/\ GateHolds'
     /\ (http_resp' # http_resp /\ ~http_resp'.entitled) =>
          UNCHANGED <<state, cancel_handles, loaded_data, workers, calls, ctl_ret, last_write>>
     /\ \A a \in AdminConns :
          (adm'[a] # adm[a] /\ ~adm'[a].entitled) =>
            UNCHANGED <<state, cancel_handles, loaded_data, workers, calls, ctl_ret,
                        last_write, http_resp>>]_vars

\* a user without "admin" was answered 403 on /stop-broadcast while broadcasting ran,
\* and a refused /admin handshake saw no frame of the events already sent
C4_Witness ==
  /\ http_resp.route = "/stop-broadcast" /\ http_resp.status = 403
  /\ state = "Running" /\ loaded_data # NoData
  /\ \E a \in AdminConns : adm[a].phase = "rejected" /\ adm[a].status = 403
  /\ Len(admin_events) > 0

\* the changes of BroadcastState the table of commands allows
LegalChange(w) ==
  \/ w.cmd = "Start" /\ w.from = "Stopped" /\ w.to = "Running"
  \/ w.cmd = "Pause" /\ w.from = "Running" /\ w.to = "Paused"
  \/ w.cmd = "Resume" /\ w.from = "Paused" /\ w.to = "Running"
  \/ w.cmd = "Stop" /\ w.to = "Stopped"
  \/ w.cmd = "Restart" /\ w.to \in {"Stopped", "Running"}

\* the pairings of state and command the table refuses
IllegalPairing(st, cmd) ==
  \/ cmd = "Start" /\ st \in {"Running", "Paused"}
  \/ cmd = "Pause" /\ st \in {"Stopped", "Paused"}
  \/ cmd = "Resume" /\ st \in {"Stopped", "Running"}

\* C5: every change of BroadcastState is stopped->running by Start, running->paused
\* by Pause, paused->running by Resume, any->stopped by Stop or any->running by
\* Restart (which passes through stopped); a refused pairing returns
\* illegal_transition in a step that leaves state, workers and loaded data unchanged.
C5_StateMachine ==
  [][/\ state' # state => LegalChange(last_write')
     /\ (ctl_ret' # ctl_ret /\ IllegalPairing(ctl_ret'.from, ctl_ret'.cmd)) =>
          /\ ~ctl_ret'.ok /\ ctl_ret'.result = "illegal_transition"
          /\ UNCHANGED <<state, workers, cancel_handles, loaded_data>>]_vars

\* C6: Stop never fails, and once a Stop that overlapped no other call has
\* returned and no call is in progress, the state is Stopped, the handle list is
\* empty and get_status_info reports 0 symbols and 0 records.
C6_Stop ==
  /\ ctl_ret.cmd = "Stop" => ctl_ret.ok
  /\ (ctl_ret.cmd = "Stop" /\ ctl_ret.clean /\ \A k \in Callers : ~Active(k)) =>
       /\ state = "Stopped"
       /\ cancel_handles = {}
       /\ get_status_info(state, loaded_data).symbol_count = 0
       /\ get_status_info(state, loaded_data).total_records = 0

\* a Stop issued while paused, with workers spawned, has returned undisturbed
C6_Witness ==
  /\ ctl_ret.cmd = "Stop" /\ ctl_ret.clean /\ ctl_ret.from = "Paused"
  /\ \A k \in Callers : ~Active(k)
  /\ workers # << >>

SubscribeReturned == ps_ret' # ps_ret /\ ps_ret'.op = "subscribe"

\* C8: subscribe(session, symbol) by a session that holds the symbol fails with the
\* duplicate error, creating no topic and no receiver and leaving the index as it
\* was; any other subscribe, such as another session's to the same symbol,
\* succeeds with a receiver of its own and adds exactly that binding.
C8_DuplicateSubscribe ==
  [][SubscribeReturned =>
       IF <<ps_ret'.session, ps_ret'.symbol>> \in Bindings(session_subscriptions)
         THEN /\ ~ps_ret'.ok /\ ps_ret'.result = "already subscribed" /\ ps_ret'.rx = {}
              /\ UNCHANGED <<symbol_channels, receivers, session_subscriptions>>
         ELSE /\ ps_ret'.ok
              /\ \E r \in DOMAIN receivers' \ DOMAIN receivers :
                   /\ ps_ret'.rx = {r}
                   /\ DOMAIN receivers' = DOMAIN receivers \cup {r}
                   /\ receivers'[r].symbol = ps_ret'.symbol
                   /\ receivers'[r].session = ps_ret'.session
              /\ \A q \in DOMAIN receivers : receivers'[q] = receivers[q]
              /\ Bindings(session_subscriptions') =
                   Bindings(session_subscriptions) \cup {<<ps_ret'.session, ps_ret'.symbol>>}
    ]_vars

\* a duplicate subscribe was refused while another session holds the same symbol
\* with a receiver of its own
C8_Witness ==
  /\ ps_ret.op = "subscribe" /\ ~ps_ret.ok
  /\ \E s \in DOMAIN session_subscriptions \ {ps_ret.session} :
       /\ ps_ret.symbol \in session_subscriptions[s]
       /\ \E r \in DOMAIN receivers :
            receivers[r].session = s /\ receivers[r].symbol = ps_ret.symbol
  /\ \E r \in DOMAIN receivers :
       receivers[r].session = ps_ret.session /\ receivers[r].symbol = ps_ret.symbol

UnsubscribeReturned ==
  ps_ret' # ps_ret /\ ps_ret'.op = "unsubscribe" /\ ps_ret'.symbol # None

\* C9: unsubscribe(s, x) by a session that holds x returns [x] and removes exactly
\* the binding (s, x); by a session that does not hold x (as right after a first
\* unsubscribe) it returns an error and changes nothing.
C9_Unsubscribe ==
  [][UnsubscribeReturned =>
       /\ IF <<ps_ret'.session, ps_ret'.symbol>> \in Bindings(session_subscriptions)
            THEN /\ ps_ret'.ok /\ ps_ret'.removed = {ps_ret'.symbol}
                 /\ Bindings(session_subscriptions') =
                      Bindings(session_subscriptions) \ {<<ps_ret'.session, ps_ret'.symbol>>}
            ELSE /\ ~ps_ret'.ok
                 /\ ps_ret'.result \in {"not subscribed", "has no subscriptions"}
                 /\ session_subscriptions' = session_subscriptions
       /\ UNCHANGED <<symbol_channels, receivers>>
    ]_vars

\* unsubscribe(s, x) has removed one binding of a session that keeps another
\* symbol, while another session holds x too
C9_Witness ==
  /\ ps_ret.op = "unsubscribe" /\ ps_ret.ok /\ ps_ret.symbol # None
  /\ ps_ret.session \in DOMAIN session_subscriptions
  /\ session_subscriptions[ps_ret.session] # {}
  /\ \E s \in DOMAIN session_subscriptions \ {ps_ret.session} :
       ps_ret.symbol \in session_subscriptions[s]

\* C3: a /ws connection in the session loop, where its read task takes
\* subscriptions, presented a token that verifies and was registered by
\* try_acquire_session at the handshake: its session id is in the registry.
C3_SessionAcquired ==
  \A c \in Conns :
    conn[c].rd \in {"run", "respond"} =>
      /\ conn[c].verified
      /\ conn[c].jti \in DOMAIN active_sessions

\* every binding of a connection that is open and reading has its topic and a
\* live receiver of that session
BindingsLive ==
  \A c \in Conns :
    (conn[c].phase = "open" /\ conn[c].rd \in {"run", "respond"}) =>
      \A b \in Bindings(session_subscriptions) :
        b[1] = conn[c].jti =>
          /\ b[2] \in DOMAIN symbol_channels
          /\ \E r \in DOMAIN receivers :
               receivers[r].session = b[1] /\ receivers[r].symbol = b[2]

\* once the handler has called cleanup_session, the session has no index entry, and
\* no receiver other than those of forwarders already aborted
CleanedUp ==
  \A c \in Conns :
    conn[c].phase \in {"release", "closed"} =>
      /\ conn[c].jti \notin DOMAIN session_subscriptions
      /\ \A f \in DOMAIN forwarders :
           (forwarders[f].conn = c /\ forwarders[f].st # "dead") => forwarders[f].aborted

\* C7: at every moment each (session, symbol) of the session index has its topic and
\* a live receiver handed to that session by subscribe; after cleanup_session the
\* session has no entry in the index and no receiver on any topic. (Stated with an
\* allowance for aborts in flight: bindings are looked at while the connection is
\* open and its read task runs, receivers of aborted forwarders count as gone.)
C7_Bookkeeping == BindingsLive /\ CleanedUp

\* the positions of the ticks of symbol x among the frames written to a socket
TickPositions(frames, x) ==
  {i \in 1..Len(frames) : frames[i].type = "tick" /\ frames[i].symbol = x}

\* C10: the ticks of one symbol are written to a connection's socket in the order
\* they were published.
C10_PublicationOrder ==
  \A c \in Conns, x \in Symbols :
    \A i, j \in TickPositions(conn[c].socket, x) :
      i < j => conn[c].socket[i].seq < conn[c].socket[j].seq

\* receiver r has returned from recv in this step
RecvReturned(r) ==
  /\ r \in DOMAIN receivers /\ r \in DOMAIN receivers'
  /\ receivers'[r] # receivers[r]
  /\ ps_ret'.op = "recv" /\ ps_ret'.rx = {r}

\* how many messages of its topic receiver r has not taken yet
Behind(r) == Len(symbol_channels[receivers[r].symbol]) - receivers[r].next + 1

CommandRead(c) == conn'[c].cmds = conn[c].cmds + 1

\* the command is a subscribe for a symbol the connection holds, or an unsubscribe
\* for one it does not hold
Redundant(c) ==
  \/ conn'[c].cmd.action = "subscribe" /\ conn'[c].cmd.symbol \in DOMAIN conn[c].tasks
  \/ conn'[c].cmd.action = "unsubscribe" /\ conn'[c].cmd.symbol \notin DOMAIN conn[c].tasks

\* C12: a subscribe for a symbol the connection already holds, or an unsubscribe for
\* one it does not hold, readies one response with status "error" and changes
\* neither the forwarders nor the bus; the response is sent to the write channel
\* once (queued while the writer lives) and the read task then goes on reading.
C12_ErrorInBand ==
  [][\A c \in Conns :
       /\ (CommandRead(c) /\ Redundant(c)) =>
            /\ conn'[c].resp = <<Response("error", conn'[c].cmd.symbol)>>
            /\ conn'[c].rd = "respond"
            /\ conn'[c].tasks = conn[c].tasks
            /\ conn'[c].queue = conn[c].queue /\ conn'[c].socket = conn[c].socket
            /\ UNCHANGED <<forwarders, symbol_channels, session_subscriptions, receivers>>
       /\ (conn[c].rd = "respond" /\ conn'[c].rd # "respond") =>
            /\ conn'[c].rd = "run" /\ conn'[c].resp = << >>
            /\ conn'[c].queue =
                 IF conn[c].queue_open THEN Append(conn[c].queue, conn[c].resp[1])
                 ELSE conn[c].queue
            /\ UNCHANGED <<forwarders, symbol_channels, session_subscriptions, receivers>>
    ]_vars

\* a second subscribe to a held symbol is being answered with an error, after an
\* earlier unsubscribe of a symbol not held was answered and the loop went on
C12_Witness ==
  \E c \in Conns :
    /\ conn[c].cmd.action = "subscribe" /\ conn[c].cmd.symbol \in DOMAIN conn[c].tasks
    /\ conn[c].resp = <<Response("error", conn[c].cmd.symbol)>>
    /\ conn[c].cmds = 3
    /\ \E i \in 1..Len(conn[c].socket) : conn[c].socket[i].type = "error"
    /\ \E i \in 1..Len(conn[c].socket) : conn[c].socket[i].type = "success"

\* C13: once the handler of a /ws connection has called cleanup_session and
\* release_session, the bus holds no subscription of that session, whichever task
\* ended first and whatever the tasks of the connection do afterwards.
C13_NoSubscriptionAfterTeardown ==
  \A c \in Conns :
    conn[c].phase = "closed" => conn[c].jti \notin DOMAIN session_subscriptions

\* the read task of c has left its loop (close frame, read error, end of stream),
\* or its write task has ended on a failed write
TransportEnded(c) ==
  /\ conn[c].phase = "open"
  /\ conn[c].rd = "done" \/ (conn[c].wr = "done" /\ ~conn[c].close_sent)

\* C14: when the read side of a /ws connection sees a close frame or a read error,
\* or its write side a write error, the handler eventually has run cleanup_session
\* and release_session for the connection's session id.
C14_TeardownRuns ==
  \A c \in Conns : TransportEnded(c) ~> conn[c].phase = "closed"

\* the handler has torn down a connection whose write failed while its read task
\* was still in its loop
C14_Witness ==
  \E c \in Conns :
    /\ conn[c].phase = "closed"
    /\ conn[c].wr = "done" /\ ~conn[c].close_sent /\ conn[c].rd = "run"
    /\ conn[c].jti \notin DOMAIN active_sessions

\* C15: after any sequence of place, cancel and fill operations every order has
\* filled_quantity <= quantity and has status filled exactly when filled_quantity
\* = quantity, and a fill adds at most the remaining quantity to filled_quantity.
C15_OrderInvariants ==
  [][\A id \in DOMAIN orders' :
       /\ orders'[id].filled_quantity <= orders'[id].quantity
       /\ orders'[id].status = "filled" <=> orders'[id].filled_quantity = orders'[id].quantity
       /\ id \in DOMAIN orders =>
            orders'[id].filled_quantity - orders[id].filled_quantity
              <= orders[id].quantity - orders[id].filled_quantity
    ]_vars

\* the call that returned in this step is a cancel of order id by user u
CancelReturned(id, u) ==
  om_ret'.op = "cancel_order" /\ om_ret'.id = id /\ om_ret'.user_id = u

\* C16: cancel(order_id, user_id) fails with not_found (404) for an unknown id,
\* else with forbidden (403) when user_id is not the owner of the order, else with
\* illegal_state (400) when the order is not pending; a failing cancel leaves the
\* orders, the per-user index and the events as they were, and a cancel changes
\* no order but the one named, and that one only for its owner.
C16_CancelErrors ==
  [][\A id \in OrderIds, u \in OrderUsers :
       CancelReturned(id, u) =>
         /\ id \notin DOMAIN orders =>
              om_ret'.result = "Order not found" /\ om_ret'.status = 404
         /\ (id \in DOMAIN orders /\ orders[id].user_id # u) =>
              /\ om_ret'.result = "Unauthorized: You can only cancel your own orders"
              /\ om_ret'.status = 403
         /\ (id \in DOMAIN orders /\ orders[id].user_id = u
               /\ orders[id].status # "pending") =>
              /\ om_ret'.result = "Order cannot be cancelled in current status"
              /\ om_ret'.status = 400
         /\ om_ret'.result # "Ok" => UNCHANGED <<orders, user_orders, admin_events>>
         /\ DOMAIN orders' = DOMAIN orders
         /\ \A k \in DOMAIN orders :
              orders'[k] # orders[k] => (k = id /\ orders[k].user_id = u)
    ]_vars

\* a cancel by someone who is not the owner was refused as forbidden, on an order
\* that is not pending either, while another order is stored
C16_Witness ==
  /\ om_ret.op = "cancel_order" /\ om_ret.status = 403
  /\ om_ret.id \in DOMAIN orders
  /\ orders[om_ret.id].user_id # om_ret.user_id
  /\ orders[om_ret.id].status = "cancelled"
  /\ Cardinality(DOMAIN orders) = MaxOrders
  /\ Len(admin_events) = MaxOrders + 1

\* the call that returned in this step is a place of request by user u
PlaceReturned(request, u) ==
  om_ret'.op = "place_order" /\ om_ret'.request = request /\ om_ret'.user_id = u

\* the price is present and positive
Positive(o) == o # Nothing /\ o[1] > 0

\* the requests the validation is to refuse
Malformed(request) ==
  \/ request.symbol = << >>
  \/ request.quantity = 0
  \/ request.order_type = "limit" /\ ~Positive(request.price)
  \/ request.order_type = "stop_loss" /\ ~Positive(request.stop_price)
  \/ request.price # Nothing /\ ~Positive(request.price)
  \/ request.stop_price # Nothing /\ ~Positive(request.stop_price)

\* C17: place with a request that fails validation (empty symbol, quantity 0, limit
\* order without a positive price, stop_loss order without a positive stop_price, a
\* present price that is not positive) stores no order, adds nothing to the per-user
\* index and emits no event; a valid request stores exactly one new order, pending,
\* with filled_quantity 0, the symbol upper-cased and the caller as owner, files it
\* last in the caller's index and emits exactly one order_placed event carrying it.
C17_PlaceValidates ==
  [][\A request \in OrderRequests, u \in OrderUsers :
       PlaceReturned(request, u) =>
         /\ Malformed(request) => om_ret'.result # "Ok"
         /\ om_ret'.result # "Ok" =>
              om_ret'.status = 400 /\ UNCHANGED <<orders, user_orders, admin_events>>
         /\ om_ret'.result = "Ok" =>
              LET id == om_ret'.id
                  held == IF u \in DOMAIN user_orders THEN user_orders[u] ELSE << >> IN
              /\ id \notin DOMAIN orders /\ DOMAIN orders' = DOMAIN orders \cup {id}
              /\ \A k \in DOMAIN orders : orders'[k] = orders[k]
              /\ orders'[id].status = "pending" /\ orders'[id].filled_quantity = 0
              /\ orders'[id].user_id = u /\ orders'[id].quantity = request.quantity
              /\ Len(orders'[id].symbol) = Len(request.symbol)
              /\ \A i \in 1..Len(request.symbol) :
                   /\ orders'[id].symbol[i] # "a"
                   /\ request.symbol[i] # "a" => orders'[id].symbol[i] = request.symbol[i]
              /\ user_orders'[u] = Append(held, id)
              /\ \A w \in DOMAIN user_orders : w # u => user_orders'[w] = user_orders[w]
              /\ Len(admin_events') = Len(admin_events) + 1
              /\ SubSeq(admin_events', 1, Len(admin_events)) = admin_events
              /\ admin_events'[Len(admin_events')].type = "order_placed"
              /\ admin_events'[Len(admin_events')].order = orders'[id]
              /\ admin_events'[Len(admin_events')].user_id = u
    ]_vars

\* a user has placed a second order, typed in lower case and stored in upper case
C17_Witness ==
  /\ om_ret.op = "place_order" /\ om_ret.result = "Ok"
  /\ om_ret.request.symbol = <<"a">> /\ orders[om_ret.id].symbol = <<"A">>
  /\ user_orders[om_ret.user_id] = <<1, om_ret.id>>
  /\ om_ret.id = MaxOrders
  /\ admin_events[Len(admin_events)].type = "order_placed"
  /\ admin_events[Len(admin_events)].order = orders[om_ret.id]
  /\ Len(admin_events) = MaxOrders

\* the number of order events sent that admin connection a has not received
AdminBehind(a) == Len(admin_events) - adm[a].next + 1

\* the event loop of admin connection a has taken one result of recv in this step
AdminReceived(a) == adm[a].phase = "open" /\ adm'[a].next # adm[a].next

\* what the claim says of a step, for a connection that lags once it is more than
\* lim events behind
AdminLagStep(lim) ==
  \A a \in AdminConns :
    /\ admin_events' # admin_events =>
         /\ adm' = adm
         /\ admin_events' = Append(admin_events, admin_events'[Len(admin_events')])
    /\ Len(admin_events) < MaxEvents => ENABLED EmitOrderEvent
    /\ (AdminReceived(a) /\ AdminBehind(a) > lim) =>
         /\ adm'[a].phase = "open"
         /\ adm'[a].frames =
              Append(adm[a].frames, [type |-> "lag_warning", symbol |-> None,
                                     seq |-> AdminBehind(a) - lim])
         /\ adm'[a].next = adm[a].next + (AdminBehind(a) - lim)
    /\ (AdminReceived(a) /\ AdminBehind(a) <= lim) =>
         /\ adm'[a].phase = "open"
         /\ adm'[a].frames = Append(adm[a].frames, admin_events[adm[a].next])
         /\ adm'[a].next = adm[a].next + 1

C19_ReleaseIdempotent ==
  /\ \A sid \in SessionIds :
       LET once == release_session(active_sessions, sid) IN
       /\ release_session(once, sid) = once
       /\ DOMAIN once = DOMAIN active_sessions \ {sid}
       /\ \A j \in DOMAIN once : once[j] = active_sessions[j]
  /\ sm_ret.op = "release_session" =>
       /\ sm_ret.result = "Ok"
       /\ DOMAIN active_sessions = DOMAIN sm_ret.pre \ {sm_ret.arg}
       /\ \A j \in DOMAIN active_sessions : active_sessions[j] = sm_ret.pre[j]

\* a session id that is not registered was released while others are registered,
\* and the registry is as it was
C19_Witness ==
  /\ sm_ret.op = "release_session" /\ sm_ret.result = "Ok"
  /\ sm_ret.arg \notin DOMAIN sm_ret.pre
  /\ sm_ret.pre # << >>
  /\ active_sessions = sm_ret.pre

\* the last command to return is a Start or a Restart that succeeded
StartReturned == ctl_ret.cmd \in {"Start", "Restart"} /\ ctl_ret.ok

\* the number of records of symbol x that the workers in ws have published
RECURSIVE SentBy(_, _)
SentBy(ws, x) ==
  IF ws = {} THEN 0
  ELSE LET w == CHOOSE v \in ws : TRUE IN
       (IF workers[w].symbol = x THEN workers[w].sent ELSE 0) + SentBy(ws \ {w}, x)

\* the workers the controller holds have published every loaded record, and no
\* worker has published a record of a symbol more often than the symbol has records
AllPublishedOnce ==
  IF loaded_data = NoData THEN FALSE
  ELSE \A x \in DOMAIN loaded_data[1] :
         /\ SentBy(cancel_handles, x) = Len(loaded_data[1][x])
         /\ \A w \in cancel_handles : workers[w].symbol = x => workers[w].sent > 0

\* C20: after a successful Start or Restart, if the state stays running, every
\* loaded record of every symbol is eventually published to the bus exactly once;
\* no worker exits before it has published its first record.
C20_AllRecordsPublished ==
  StartReturned ~> (state # "Running" \/ AllPublishedOnce)

\* worker task w has not ended and has not been aborted
Live(w) == workers[w].pc \notin {"done", "cancelled"} /\ ~workers[w].aborted

\* C21: at any time there is at most one live worker task per symbol, also when
\* Start, Stop and Restart are issued concurrently, and the handle of every live
\* worker is in the controller's handle list, where a later Stop finds it.
C21_OneWorkerPerSymbol ==
  /\ \A v, w \in DOMAIN workers :
       (Live(v) /\ Live(w) /\ workers[v].symbol = workers[w].symbol) => v = w
  /\ \A w \in DOMAIN workers : Live(w) => w \in cancel_handles

\* the last command to return is a Stop and no command is in progress: every
\* worker there is was spawned before that Stop returned
StopReturned == ctl_ret.cmd = "Stop" /\ \A k \in Callers : ~Active(k)

\* C22: once a Stop command has returned, no worker spawned before that Stop
\* publishes any further message to the bus.
C22_NoPublishAfterStop ==
  [][StopReturned =>
       /\ \A w \in DOMAIN workers : workers'[w].sent = workers[w].sent
       /\ symbol_channels' = symbol_channels]_vars

\* worker w publishes in this step
Publishes(w) == workers'[w].sent = workers[w].sent + 1

\* worker w has ended by the end of this step
WorkerEnded(w) == workers'[w].pc \in {"done", "cancelled"}

\* C23: across any sequence of Pause and Resume commands, the messages a symbol's
\* worker publishes are the records it was given, in their order, none skipped and
\* none repeated (its k-th message is the k-th record, and it leaves records
\* unpublished only when it is stopped), and a worker that has observed paused
\* takes no further record until it has seen the state running again.
C23_RecordsInOrder ==
  [][\A w \in DOMAIN workers :
       /\ workers'[w].sent # workers[w].sent => Publishes(w)
       /\ Publishes(w) =>
            /\ workers[w].i = workers[w].sent + 1
            /\ symbol_channels' =
                 broadcast_to_symbol(symbol_channels, receivers, workers[w].symbol,
                                     StockMessage(workers[w].symbol,
                                                  workers[w].data[workers[w].sent + 1])).channels
       /\ (workers'[w].i # workers[w].i /\ ~WorkerEnded(w)) =>
            Publishes(w) /\ workers'[w].i = workers[w].i + 1
       /\ (workers[w].pc = "sleep" /\ ~WorkerEnded(w)) =>
            workers'[w].i = workers[w].i /\ workers'[w].data = workers[w].data
       /\ ~WorkerEnded(w) => workers'[w].data = workers[w].data
       /\ (WorkerEnded(w) /\ workers[w].pc \notin {"done", "cancelled"}
             /\ workers'[w].sent < Len(workers[w].data)) =>
            state = "Stopped" \/ workers[w].aborted
    ]_vars

\* a Start or Restart that overlapped no other call returns a load failure in
\* this step
LoadFailed ==
  /\ ctl_ret' # ctl_ret
  /\ ctl_ret'.result = "load_failure" /\ ctl_ret'.clean

PublishesLast(w) == Publishes(w) /\ workers[w].i = Len(workers[w].data)

\* C25: a worker that has published its last record exits without changing the
\* BroadcastState, the loaded data, the handle list or the other workers; the
\* controller stays as it is, so while it is running status reports running and a
\* Start is refused with illegal_transition.
C25_WorkerExit ==
  [][/\ \A w \in DOMAIN workers :
          PublishesLast(w) =>
            /\ workers'[w].pc = "done"
            /\ UNCHANGED <<state, loaded_data, cancel_handles>>
            /\ DOMAIN workers' = DOMAIN workers
            /\ \A v \in DOMAIN workers \ {w} : workers'[v] = workers[v]
            /\ get_status_info(state', loaded_data') = get_status_info(state, loaded_data)
     /\ (ctl_ret' # ctl_ret /\ ctl_ret'.cmd = "Start" /\ ctl_ret'.from = "Running") =>
          /\ ~ctl_ret'.ok /\ ctl_ret'.result = "illegal_transition"
          /\ UNCHANGED <<state, workers, cancel_handles, loaded_data>>
    ]_vars

\* every record has been published, the worker is gone, the state is still Running
\* and a Start has just been refused
C25_Witness ==
  /\ state = "Running" /\ loaded_data # NoData
  /\ cancel_handles # {}
  /\ \A w \in cancel_handles :
       /\ workers[w].pc = "done"
       /\ workers[w].sent = Len(loaded_data[1][workers[w].symbol])
  /\ ctl_ret.cmd = "Start" /\ ctl_ret.result = "illegal_transition"
  /\ ctl_ret.from = "Running"
  /\ get_status_info(state, loaded_data).state = "Running"

\* the recv of forwarder f returns a lag report in this step: the forwarder was
\* waiting in recv, not aborted, with more messages unread than the channel keeps
FwdLagged(f) ==
  /\ forwarders[f].st \in {"idle", "polling"} /\ ~forwarders[f].aborted
  /\ forwarders'[f].st # forwarders[f].st
  /\ forwarders[f].rx \in DOMAIN receivers
  /\ Behind(forwarders[f].rx) > RingSize(channel_capacity)

\* C26: after the receiver of a user connection for a symbol has lagged, the
\* connection keeps receiving the ticks published afterwards for that symbol while
\* the subscription is recorded for its session: the forwarder and its receiver
\* live on.
C26_ForwardingSurvivesLag ==
  [][\A f \in DOMAIN forwarders :
       (FwdLagged(f) /\ conn'[forwarders[f].conn].jti \in DOMAIN session_subscriptions') =>
         /\ forwarders'[f].st # "dead"
         /\ forwarders[f].rx \in DOMAIN receivers'
    ]_vars

\* C27: when the session slot has been released (the handler has called
\* release_session and returned), the connection's read task, write task and
\* heartbeat task have ended and none of its forwarders is still alive
C27_TasksEndBeforeRelease ==
  \A c \in Conns :
    conn[c].phase = "closed" =>
      /\ conn[c].rd = "done"
      /\ conn[c].wr = "done"
      /\ conn[c].hb # "run"
      /\ \A f \in DOMAIN forwarders :
           forwarders[f].conn = c => forwarders[f].st = "dead"

\* C28: every session in the registry has a connection behind it whose handler is
\* still at work (between the accepted handshake and release_session); in
\* particular a session registered by a handshake that then fails is not left
\* registered
C28_SessionHasConnection ==
  \A sid \in DOMAIN active_sessions :
    \E c \in Conns :
      conn[c].jti = sid /\ conn[c].phase \in {"acquired", "open", "release"}

\* a call of cleanup_stale_sessions returns in this step
CleanupReturned ==
  IF sm_ret'.op # "cleanup_stale_sessions" THEN FALSE
  ELSE IF sm_ret.op # "cleanup_stale_sessions" THEN TRUE
  ELSE sm_ret'.pre # sm_ret.pre \/ sm_ret'.at # sm_ret.at

\* C29: cleanup_stale_sessions removes exactly the sessions whose last heartbeat is
\* more than CONNECTION_TIMEOUT_SECS old, returns how many it removed and leaves
\* every other session as it was
C29_SweepExactlyStale ==
  [][CleanupReturned =>
       /\ DOMAIN active_sessions' =
            {j \in DOMAIN active_sessions :
               now - active_sessions[j].last_heartbeat <= CONNECTION_TIMEOUT_SECS}
       /\ \A j \in DOMAIN active_sessions' : active_sessions'[j] = active_sessions[j]
       /\ sm_ret'.result = Cardinality(DOMAIN active_sessions \ DOMAIN active_sessions')
       /\ now' = now]_vars

\* a sweep has removed a session and kept one whose last heartbeat is exactly
\* CONNECTION_TIMEOUT_SECS old
C29_Witness ==
  /\ sm_ret.op = "cleanup_stale_sessions"
  /\ sm_ret.result = 1
  /\ sm_ret.at = now
  /\ \E j \in DOMAIN sm_ret.pre \cap DOMAIN active_sessions :
       now - active_sessions[j].last_heartbeat = CONNECTION_TIMEOUT_SECS

\* a call of update_heartbeat returns in this step
HeartbeatReturned ==
  IF sm_ret'.op # "update_heartbeat" THEN FALSE
  ELSE IF sm_ret.op # "update_heartbeat" THEN TRUE
  ELSE sm_ret'.arg # sm_ret.arg \/ sm_ret'.pre # sm_ret.pre \/ sm_ret'.at # sm_ret.at

\* C30: update_heartbeat reports success and neither adds nor removes a session; for
\* an id that is not registered the registry is unchanged, for a registered one only
\* that session's last_heartbeat changes (to the time of the call)
C30_HeartbeatFrame ==
  [][HeartbeatReturned =>
       /\ sm_ret'.result = "Ok"
       /\ DOMAIN active_sessions' = DOMAIN active_sessions
       /\ \A j \in DOMAIN active_sessions :
            active_sessions'[j] =
              IF j = sm_ret'.arg THEN [active_sessions[j] EXCEPT !.last_heartbeat = now]
              ELSE active_sessions[j]
       /\ sm_ret'.arg \notin DOMAIN active_sessions => active_sessions' = active_sessions
       /\ now' = now]_vars

\* a heartbeat for an id that is not registered has returned Ok while other
\* sessions are registered, and the registry is as it was before the call
C30_Witness ==
  /\ sm_ret.op = "update_heartbeat"
  /\ sm_ret.result = "Ok"
  /\ sm_ret.arg \notin DOMAIN sm_ret.pre
  /\ sm_ret.pre # << >>
  /\ active_sessions = sm_ret.pre
  /\ now > 0

\* the symbols that have a channel (the topics of the bus)
Topics(channels) == DOMAIN channels

\* a call of broadcast_to_symbol returns in this step
PublishReturned == pub_count' = pub_count + 1

\* C31: the set of topics only grows, and only by the symbol of a successful
\* subscribe, which has a topic afterwards; unsubscribe, cleanup_session and publish
\* leave the set as it is; a publish on a symbol without a topic, or whose topic has
\* no live receiver, returns 0 without error and stores nothing
C31_TopicsOnlyGrow ==
  [][/\ Topics(symbol_channels) \subseteq Topics(symbol_channels')
     /\ Topics(symbol_channels') # Topics(symbol_channels) =>
          /\ ps_ret'.op = "subscribe" /\ ps_ret'.ok
          /\ ps_ret'.symbol \notin Topics(symbol_channels)
          /\ Topics(symbol_channels') = Topics(symbol_channels) \cup {ps_ret'.symbol}
     /\ (ps_ret'.op = "subscribe" /\ ps_ret'.ok /\ receivers' # receivers) =>
          ps_ret'.symbol \in Topics(symbol_channels')
     /\ PublishReturned =>
          /\ ps_ret'.op = "broadcast_to_symbol" /\ ps_ret'.ok
          /\ Topics(symbol_channels') = Topics(symbol_channels)
          /\ (\/ ps_ret'.symbol \notin Topics(symbol_channels)
              \/ receiver_count(receivers, ps_ret'.symbol) = 0) =>
               ps_ret'.count = 0 /\ symbol_channels' = symbol_channels]_vars

\* a publish on a symbol without a topic has returned 0, while the topic of another
\* symbol still exists although no session is subscribed and no receiver is left
C31_Witness ==
  /\ ps_ret.op = "broadcast_to_symbol" /\ ps_ret.ok /\ ps_ret.count = 0
  /\ ps_ret.symbol \notin Topics(symbol_channels)
  /\ Topics(symbol_channels) # {}
  /\ session_subscriptions = << >>
  /\ receivers = << >>

\* a frame of the admin connection that carries an order event
IsOrderFrame(f) == f.type \in {"order_placed", "order_cancelled"}
OrderFrames(a) == SelectSeq(adm[a].frames, IsOrderFrame)
Lagging(a) == \E i \in DOMAIN adm[a].frames : adm[a].frames[i].type = "lag_warning"

\* the events sent so far are in the order of the mutations: a cancel event comes
\* after the placed event of its order
EmissionOrder(events) ==
  \A i \in DOMAIN events :
    /\ events[i].seq = i
    /\ events[i].type = "order_cancelled" =>
         \E j \in 1..(i - 1) :
           events[j].type = "order_placed" /\ events[j].order.id = events[i].order.id

\* the order events an admin connection has been sent are events of the feed, in
\* the order of the feed, and without a gap unless a lag was reported
ReceivedInOrder(a, events) ==
  LET fs == OrderFrames(a) IN
  /\ \A i \in DOMAIN fs : fs[i].seq \in DOMAIN events /\ fs[i] = events[fs[i].seq]
  /\ \A i, j \in DOMAIN fs : i < j => fs[i].seq < fs[j].seq
  /\ ~Lagging(a) => \A i \in 1..(Len(fs) - 1) : fs[i + 1].seq = fs[i].seq + 1

\* C32: every place or cancel that takes effect appends, in the same step, one event
\* carrying the order as the mutation left it, and nothing else is ever sent; so the
\* events are in the order of the mutations, order_placed before order_cancelled for
\* each order, and an admin connection is sent them in that order, without a gap
\* unless it lagged
C32_AdminEventOrder ==
  [][/\ Len(admin_events') \in {Len(admin_events), Len(admin_events) + 1}
     /\ SubSeq(admin_events', 1, Len(admin_events)) = admin_events
     /\ (orders' # orders) <=> (admin_events' # admin_events)
     /\ admin_events' # admin_events =>
          LET e == admin_events'[Len(admin_events')] IN
          /\ e.order.id \in DOMAIN orders' /\ e.order = orders'[e.order.id]
          /\ \A id \in DOMAIN orders : id # e.order.id => orders'[id] = orders[id]
          /\ IF e.order.id \notin DOMAIN orders
               THEN e.type = "order_placed" /\ e.order.status = "pending"
               ELSE /\ e.type = "order_cancelled"
                    /\ orders[e.order.id].status = "pending"
                    /\ e.order = cancel(orders[e.order.id])
     /\ EmissionOrder(admin_events')
     /\ \A a \in AdminConns : ReceivedInOrder(a, admin_events')]_vars

\* an admin connection that never lagged has been sent the order_placed event of an
\* order and then its order_cancelled event
C32_Witness ==
  \E a \in AdminConns :
    LET fs == OrderFrames(a) IN
    /\ ~Lagging(a)
    /\ \E i, j \in DOMAIN fs :
         /\ i < j
         /\ fs[i].type = "order_placed" /\ fs[j].type = "order_cancelled"
         /\ fs[i].order.id = fs[j].order.id

\* a command returns to its route in this step, no other being in progress: at once
\* from execute_command, or at the end of the steps of a Start, Stop or Restart
RouteReturned ==
  /\ \A k \in Callers : calls'[k].pc = "idle"
  /\ call_count' # call_count \/ \E k \in Callers : Active(k)

\* C33: POST /start-broadcast refused because the controller is running or paused is
\* answered 400, a Start whose data load fails is answered 500, and in both cases
\* the state is left as the command found it
C33_StartErrors ==
  [][(RouteReturned /\ ctl_ret'.cmd = "Start" /\ ~ctl_ret'.ok) =>
       /\ ctl_ret'.result \in {"illegal_transition", "load_failure"}
       /\ ctl_ret'.result = "illegal_transition" =>
            ctl_ret'.from \in {"Running", "Paused"} /\ ctl_ret'.status = 400
       /\ ctl_ret'.result = "load_failure" =>
            ctl_ret'.from = "Stopped" /\ ctl_ret'.status = 500
       /\ state' = ctl_ret'.from]_vars

\* the symbols the session index of the bus records for session sid
Recorded(sid) ==
  IF sid \in DOMAIN session_subscriptions THEN session_subscriptions[sid] ELSE {}

\* C34: while the read task of a connection runs, the symbols of its
\* subscription_tasks map are the symbols the bus records for its session
C34_LocalMapMatchesIndex ==
  \A c \in Conns :
    conn[c].rd = "run" => DOMAIN conn[c].tasks = Recorded(conn[c].jti)

\* the read task of connection c has subscribed to a symbol and holds the success
\* response it has yet to queue
SubscribeAnswerPending(c) ==
  /\ conn[c].rd = "respond"
  /\ conn[c].cmd.action = "subscribe"
  /\ conn[c].resp = <<Response("success", conn[c].cmd.symbol)>>

\* a tick of symbol x is queued for the socket of connection c in this step
TickQueued(c, x) ==
  /\ Len(conn'[c].queue) = Len(conn[c].queue) + 1
  /\ conn'[c].queue[Len(conn'[c].queue)].type = "tick"
  /\ conn'[c].queue[Len(conn'[c].queue)].symbol = x

\* C35: no tick of a symbol is queued on a connection while the success response to
\* its subscribe to that symbol has not been queued yet
C35_ResponseBeforeTicks ==
  [][\A c \in Conns :
       SubscribeAnswerPending(c) => ~TickQueued(c, conn[c].cmd.symbol)]_vars

\* C36: once the response to unsubscribe(x) or unsubscribe_all has been queued, no
\* tick of a symbol the connection is no longer subscribed to is queued on it: a tick
\* of x is queued to a connection whose read task is at work only if x is in its
\* subscription_tasks or the response to the unsubscribe is still to be queued
C36_NoTickAfterUnsubscribe ==
  [][\A c \in Conns, x \in ClientSymbols :
       (/\ TickQueued(c, x)
        /\ conn[c].rd \in {"run", "respond"}
        /\ x \notin DOMAIN conn[c].tasks) =>
         (conn[c].rd = "respond" /\ conn[c].cmd.action \in {"unsubscribe", "unsubscribe_all"})]_vars

\* C37: whenever no command is in progress, data is loaded exactly when the state is
\* Running or Paused and the list of worker handles is empty when the state is
\* Stopped; and no status answer reports Stopped with a symbol count other than 0
C37_DataMatchesState ==
  /\ (\A k \in Callers : ~Active(k)) =>
       /\ (loaded_data # NoData) <=> (state \in {"Running", "Paused"})
       /\ state = "Stopped" => cancel_handles = {}
  /\ http_resp.body.info # << >> =>
       ~(http_resp.body.info[1].state = "Stopped" /\ http_resp.body.info[1].symbol_count # 0)

\* the places (user, position) of the per-user index that list order id
Listings(id) ==
  {<<u, i>> \in (DOMAIN user_orders) \X (1..MaxOrders) :
     i \in DOMAIN user_orders[u] /\ user_orders[u][i] = id}

\* C38: every id listed under a user is the id of a stored order of that user, every
\* stored order is listed exactly once and under its owner, and get_user_orders
\* returns exactly the user's orders, in the order they were placed
C38_IndexConsistent ==
  /\ \A u \in DOMAIN user_orders : \A i \in DOMAIN user_orders[u] :
       /\ user_orders[u][i] \in DOMAIN orders
       /\ orders[user_orders[u][i]].user_id = u
  /\ \A id \in DOMAIN orders :
       \E i \in 1..MaxOrders : Listings(id) = {<<orders[id].user_id, i>>}
  /\ \A u \in OrderUsers :
       LET l == get_user_orders(orders, user_orders, u) IN
       /\ {l[i].id : i \in DOMAIN l} = {id \in DOMAIN orders : orders[id].user_id = u}
       /\ \A i \in DOMAIN l : l[i] = orders[l[i].id]
       /\ \A i, j \in DOMAIN l : i < j => l[i].id < l[j].id

\* a user has placed two orders and cancelled the first, another call has failed,
\* and get_user_orders lists both, the cancelled one first
C38_Witness ==
  \E u \in OrderUsers :
    LET l == get_user_orders(orders, user_orders, u) IN
    /\ Len(l) = 2
    /\ l[1].status = "cancelled" /\ l[2].status = "pending"
    /\ om_ret.result # "Ok"

\* the order_cancelled events sent for order id
CancelEvents(events, id) ==
  {i \in DOMAIN events : events[i].type = "order_cancelled" /\ events[i].order.id = id}

\* C39: of the cancel requests of its owner for one order, the one that finds it
\* pending succeeds, cancels it and sends the one order_cancelled event; every other
\* fails with the illegal-state error (400) and changes nothing; an order that has
\* left pending never becomes pending again
C39_CancelOnce ==
  [][\A id \in OrderIds :
       /\ (id \in DOMAIN orders /\ orders[id].status # "pending") =>
            orders'[id].status # "pending"
       /\ Cardinality(CancelEvents(admin_events', id)) <= 1
       /\ (id \in DOMAIN orders' /\ orders'[id].status = "cancelled") =>
            Cardinality(CancelEvents(admin_events', id)) = 1
       /\ \A u \in OrderUsers :
            (CancelReturned(id, u) /\ id \in DOMAIN orders /\ orders[id].user_id = u) =>
              IF orders[id].status = "pending"
                THEN /\ om_ret'.result = "Ok" /\ om_ret'.status = 200
                     /\ orders'[id].status = "cancelled"
                     /\ CancelEvents(admin_events', id) = {Len(admin_events) + 1}
                ELSE /\ om_ret'.result = "Order cannot be cancelled in current status"
                     /\ om_ret'.status = 400
                     /\ orders' = orders /\ admin_events' = admin_events]_vars

\* the owner's second cancel of an order has failed with the illegal-state error:
\* the order is cancelled and one order_cancelled event has been sent for it
C39_Witness ==
  /\ om_ret.op = "cancel_order"
  /\ om_ret.result = "Order cannot be cancelled in current status"
  /\ om_ret.id \in DOMAIN orders
  /\ orders[om_ret.id].status = "cancelled"
  /\ orders[om_ret.id].user_id = om_ret.user_id
  /\ Cardinality(CancelEvents(admin_events, om_ret.id)) = 1

====
